---------------------------- MODULE Spec2Model ----------------------------
(***************************************************************************)
(* Model of the IBM 3705 protocol bridging engine (snhstq/IBM3705_R4).     *)
(*                                                                         *)
(* Part I models the DLSw router of src/DLSw/DLSw_rt.c: proc_DLSw (the     *)
(* handler of one message read from the peer DLSw) and the main loop       *)
(* (connection management, the SDLC line reader with its frame search,     *)
(* the RR/RNR/SNRM/XID responders and the SDLC -> DLSw I-frame path).      *)
(*                                                                         *)
(* Bytes are naturals 0..255.  The 4-byte correlators are tokens (one      *)
(* natural per 4-byte value, 0 = the all-zero value of a fresh global).    *)
(* A DLSw message is a record with one field per header offset the code    *)
(* reads or writes, plus the bytes that follow the header.  A byte buffer  *)
(* of the program that is indexed past its live length (SDLC_wbuf) is a    *)
(* function from the indices holding a non-zero byte to that byte; all     *)
(* other bytes of the 65536-byte global are zero.                          *)
(***************************************************************************)
EXTENDS Integers, Sequences, FiniteSets, TLC

(***************************************************************************)
(* Program constants (DLSw_rt.c)                                           *)
(***************************************************************************)
OFF == 0
ON  == 1

CANUREACH    == 3
ICANREACH    == 4
REACH_ACK    == 5
XIDFRAME     == 7
CONTACT      == 8
CONTACTED    == 9
INFOFRAME    == 10
HALT_DL      == 14
DL_HALTED    == 15
RESTART_DL   == 16
DL_RESTARTED == 17
KEEPALIVE    == 29
CAP_EXCHANGE == 32
IFCM         == 33

DIR_TGT == 1
DIR_ORG == 2

DLSW_VER == 49
LEN_CTRL == 72
LEN_INFO == 16

FCB_FCI == 128
FCB_FCA == 64
FCO_RPT == 0

CAP_IPW_OFF == 13
GDS_REQUEST  == 5408
GDS_RESPONSE == 5409

CPoll  == 16
CFinal == 16
UNNUM  == 3
SNRM   == 131
XID    == 175
UA     == 99
SUPRV  == 1
RR     == 1
RNR    == 5

RTS == 8
CTS == 128

DISCONNECTED        == 0
CIRCUIT_PENDING     == 1
CIRCUIT_START       == 2
CIRCUIT_RESTART     == 3
CIRCUIT_ESTABLISHED == 4
CONNECT_PENDING     == 5
CONNECTED           == 6

\* sizeof(SDLC_wbuf), and the modulus of the uint16_t lengths
BUFSIZE == 65536
\* station address the engine writes into the I-frames it builds
STATION == 193

SDLC_FCSLT == <<71, 15, 126>>

(***************************************************************************)
(* Bounds of the model                                                     *)
(***************************************************************************)
\* live bytes of SDLC_wbuf beyond which no further frame is queued or polled
MaxWbuf == 20
\* units the peer may overdraw before it stops sending
MaxDebt == 2
\* frames in one read of the SDLC line
MaxLineFrames == 2
\* length of the histories the observers keep
MaxHist == 9
\* bytes of a payload sent through the round trip
MaxPayload == 4
\* messages counted after a capabilities exchange
MaxMsgs == 5

(***************************************************************************)
(* Byte arithmetic                                                         *)
(***************************************************************************)
RECURSIVE BitAnd(_, _)
BitAnd(x, y) ==
  IF x = 0 \/ y = 0 THEN 0
  ELSE (IF x % 2 = 1 /\ y % 2 = 1 THEN 1 ELSE 0) + 2 * BitAnd(x \div 2, y \div 2)

BitOr(x, y) == x + y - BitAnd(x, y)

\* conversion of an int to uint8_t / uint16_t
U8(x)  == x % 256
U16(x) == x % BUFSIZE

Hi(x) == (x \div 256) % 256
Lo(x) == x % 256


\* the one element of a singleton set; The({e(x) : x \in {v}}) evaluates v once
The(S) == CHOOSE x \in S : TRUE

(***************************************************************************)
(* Byte buffers: SDLC_wbuf[65536] as the function of its non-zero bytes    *)
(***************************************************************************)
EmptyBuf == [j \in {} |-> 0]

Rd(buf, i) == IF i \in DOMAIN buf THEN buf[i] ELSE 0

RdSeq(buf, off, n) == [k \in 1..n |-> Rd(buf, off + k - 1)]

\* buf[off .. off+Len(s)-1] = s
WrSeq(buf, off, s) ==
  LET idx    == {off + k - 1 : k \in 1..Len(s)}
      val(j) == IF j \in idx THEN s[j - off + 1] ELSE buf[j]
      d      == {j \in (DOMAIN buf) \cup idx : val(j) # 0}
  IN  [j \in d |-> val(j)]

Wr(buf, i, b) == WrSeq(buf, i, <<b>>)

\* memmove(buf, &buf[src], n); a byte read at or past buf[BUFSIZE] lies
\* outside the array and reads as the byte g of whatever memory follows it
MemMoveFront(buf, src, n, g) ==
  LET val(j) == IF j < n
                THEN (IF src + j < BUFSIZE THEN Rd(buf, src + j) ELSE g)
                ELSE Rd(buf, j)
      cand   == {j \in DOMAIN buf : j >= n}
                \cup {j - src : j \in {i \in DOMAIN buf : i >= src /\ i - src < n}}
                \cup (IF src + n > BUFSIZE THEN (BUFSIZE - src)..(n - 1) ELSE {})
      d      == {j \in cand : val(j) # 0}
  IN  [j \in d |-> val(j)]

\* the n bytes buf[off .. off+n-1] handed to send(): their number and, by
\* offset, the non-zero ones; a byte at or past buf[BUFSIZE] reads as g
Bytes(buf, off, n, g) ==
  LET val(j) == IF off + j < BUFSIZE THEN Rd(buf, off + j) ELSE g
      cand   == {j - off : j \in {i \in DOMAIN buf : i >= off /\ i - off < n}}
                \cup (IF off + n > BUFSIZE THEN (BUFSIZE - off)..(n - 1) ELSE {})
      d      == {j \in cand : val(j) # 0}
  IN  [len |-> n, data |-> [j \in d |-> val(j)]]

\* the same for a byte sequence
BytesOf(s) == Bytes(WrSeq(EmptyBuf, 0, s), 0, Len(s), 0)

(***************************************************************************)
(* DLSw messages                                                           *)
(***************************************************************************)
\* CONTROL_MSG_Hdr[]: version, header length 0x48, message length 0x0026,
\* direction 0x01, everything else the code looks at zero
CONTROL_MSG_Hdr ==
  [ver |-> DLSW_VER, hlen |-> LEN_CTRL, mlen |-> 38, rdlc |-> 0, rdpid |-> 0,
   mtyp |-> 0, fcb |-> 0, sflg |-> 0, dir |-> DIR_TGT, odpid |-> 0, odlc |-> 0,
   body |-> <<>>]

\* INFOFRAME_Hdr[]: version, header length 0x10, the rest zero (the fields
\* past offset 0x0F do not exist in a 16-byte header and are kept zero)
INFOFRAME_Hdr ==
  [ver |-> DLSW_VER, hlen |-> LEN_INFO, mlen |-> 0, rdlc |-> 0, rdpid |-> 0,
   mtyp |-> 0, fcb |-> 0, sflg |-> 0, dir |-> 0, odpid |-> 0, odlc |-> 0,
   body |-> <<>>]

CAP_EXCHANGE_Msg ==
  <<0, 38, 21, 32, 5, 129, 0, 0,
    0, 4, 130, 2, 0, 4, 131, 0,
    20, 18, 134, 255, 255, 255, 255, 255,
    255, 255, 255, 255, 255, 255, 255, 255,
    255, 255, 255, 3, 135, 2>>

CAP_EXCHANGE_Rsp == <<0, 4, 21, 33>>

XIDFRAME_Rsp == <<20, 1, 0, 0, 0, 0, 0, 0, 0, 0, 0, 0, 0, 0, 0, 0, 0, 0, 0, 0>>

\* byte at 0-based offset off of the bytes that follow the header
BodyAt(m, off) == IF off < Len(m.body) THEN m.body[off + 1] ELSE 0

\* number of bytes of a message on the wire
WireLen(m) == m.hlen + Len(m.body)

(***************************************************************************)
(* SDLC frames                                                             *)
(***************************************************************************)
\* control byte of the I-frame built from an INFOFRAME (lines 642-645)
IFrameCtl(Ns, Nr) ==
  LET c0 == 0 + CFinal
      c1 == BitOr(BitAnd(c0, 31), U8(Nr * 32))
  IN  BitOr(BitAnd(c1, 241), U8(Ns * 2))

\* link header, payload, FCS and link trailer (lines 639-646)
IFrameOf(P, Ns, Nr) == <<126, STATION, IFrameCtl(Ns, Nr)>> \o P \o SDLC_FCSLT

\* seq_Ns++ ; if (seq_Ns == 8) seq_Ns = 0
NextSeqMut(n) == U8(n + 1)
NextSeq(n) == IF U8(n + 1) = 8 THEN 0 ELSE U8(n + 1)

(***************************************************************************)
(* State of the DLSw router (the globals of DLSw_rt.c and main's locals)   *)
(***************************************************************************)
VARIABLES
  state,                \* DLSw circuit state
  flow_control,         \* flow control on/off switch
  fc_byte,              \* flow control byte of the next reply
  fca_owed,             \* flow control acknowledge owed by the peer
  fca_due,              \* flow control acknowledge due to the peer
  fc_init_window_size,
  fc_current_window,
  rp_granted_units,
  lp_granted_units,
  dlc, dlc_pid,         \* stored correlator and port id of the peer
  PUtype, IDBLK, IDNUM, \* learned from the peer's XID
  seq_Nr, seq_Ns,       \* SDLC sequence numbers
  SDLCwlen,             \* live length of SDLC_wbuf (uint16_t)
  SDLC_wbuf,            \* SDLC write buffer
  rs232_stat,           \* RS232 signal status
  conrfd, conwfd, conlfd, capex,
  dlsw_rfd,             \* inbound descriptor: 0 cleared, 1 a descriptor
  halted,               \* the process has been terminated by a fault
  dlsw_out,             \* messages sent on dlsw_wfd by the last step
  line_out,             \* frames sent on line_fd by the last step
  sig_out,              \* bytes sent on rs232_fd by the last step
  hist                  \* history kept by the observers (not program state)

flowVars == <<flow_control, fc_byte, fca_owed, fca_due, fc_init_window_size,
              fc_current_window, rp_granted_units, lp_granted_units>>
circVars == <<state, dlc, dlc_pid, PUtype, IDBLK, IDNUM>>
sdlcVars == <<seq_Nr, seq_Ns, SDLCwlen, SDLC_wbuf>>
connVars == <<conrfd, conwfd, conlfd, capex, dlsw_rfd>>
outVars  == <<dlsw_out, line_out, sig_out>>
\* the scanner and the line interface base (Part II below), a process of
\* their own
VARIABLES
  icw_scf, icw_pdf, icw_lcd, icw_pcf, icw_sdf,    \* ICW local store
  icw_pcf_prev, icw_lne_stat, icw_pcf_nxt, icw_pdf_reg,
  Eflg_rcvd, FCS_rcvd,
  RS232, RS232r,        \* local and remote RS232 signals
  CS2_req_L2_int,       \* the scanner's own request flag
  svc_req_L2,           \* level 2 service request to the CPU
  abar_int,             \* ABAR of the line that caused the request
  lvl,                  \* interrupt level the CPU runs at
  Eregs_Inp,            \* input registers 0x44-0x47, loaded by Get_ICW
  LIBline,              \* d327x_fd, s327x_fd, LIB_rbuf, LIB_tbuf, LIBsync
  line,                 \* line the scanner is at
  cs2_pc,               \* where the scanner is in its cycle
  cs2_ops,              \* unlocked updates of RS232[line] still to make
  cs2_tmp,              \* RS232[line] as read for the update in progress
  lib_k,                \* line the LIB worker is at
  lib_pc,               \* where the LIB worker is in its loop body
  lib_tmp,              \* RS232[k] as read by ReadSig
  live,                 \* connections that are connected
  nfd,                  \* connections accepted so far
  pend,                 \* connection requests waiting at the listener
  dat_in,               \* bytes waiting on the data connection
  sig_in,               \* bytes waiting on the signal connection
  lib_out,              \* frames sent on data connections by the last step
  rs_out                \* bytes sent on signal connections by the last step

icwVars == <<icw_scf, icw_pdf, icw_lcd, icw_pcf, icw_sdf, icw_pcf_prev,
             icw_lne_stat, icw_pcf_nxt, icw_pdf_reg, Eflg_rcvd, FCS_rcvd>>
l2Vars  == <<CS2_req_L2_int, svc_req_L2, abar_int, lvl>>
cs2Vars == <<line, cs2_pc, cs2_ops, cs2_tmp>>
libVars == <<lib_k, lib_pc, lib_tmp>>
netVars == <<live, nfd, pend, dat_in, sig_in>>
i3705Vars == <<icwVars, l2Vars, cs2Vars, libVars, netVars, RS232, RS232r,
               Eregs_Inp, LIBline, lib_out, rs_out>>

\* the null modem (Part III below), a process of its own
VARIABLES
  linestate,            \* line1state, line2state: NRDY or RDY
  line_fd,              \* line1_fd, line2_fd: "new", "up" or "down"
  rs232_fd,             \* rs232f_fd (line 1), rs232s_fd (line 2)
  rc1, rc2,             \* results of the last connect() calls
  signal,               \* the last signal byte read
  nm_pc,                \* where the null modem is in its loop body
  line_in,              \* bytes waiting on the data connection of a line
  rs_in,                \* bytes waiting on the signal connection of a line
  line_snd,             \* bytes sent on the data connections by the last step
  rs_snd                \* bytes sent on the signal connections by the last step

\* the mutexes of the 3705 and the threads' places in their lock calls
VARIABLES
  mtx,                  \* icw_lock, rs232_lock, line_lock: "free" or the holder
  lk_pc                 \* the lock or unlock call each thread is at

lockVars == <<mtx, lk_pc>>

nmVars == <<linestate, line_fd, rs232_fd, rc1, rc2, signal, nm_pc, line_in, rs_in,
            line_snd, rs_snd>>

vars == <<flowVars, circVars, sdlcVars, connVars, outVars, rs232_stat, halted, hist,
          i3705Vars, nmVars, lockVars>>

(***************************************************************************)
(* proc_DLSw: flow control for one received message (lines 462-500)        *)
(***************************************************************************)
HasFCI(m) == BitAnd(m.fcb, FCB_FCI) # 0
HasFCA(m) == BitAnd(m.fcb, FCB_FCA) # 0

\* if (rp_granted_units <= fc_current_window), reached only if (!fca_owed)
GrantDueMut(rp, cw, owed) == rp <= cw
GrantDue(rp, cw, owed) == owed = 0 /\ rp <= cw

\* the Independent Flow Control Message of lines 484-496
IfcmMsg ==
  [INFOFRAME_Hdr EXCEPT !.mtyp = IFCM, !.fcb = BitOr(FCB_FCI, FCO_RPT),
                        !.rdlc = dlc, !.rdpid = dlc_pid, !.mlen = 0]

FlowIn(m) ==
  LET fcb1  == IF HasFCI(m) THEN BitOr(0, FCB_FCA) ELSE 0
      due1  == IF HasFCI(m) THEN 1 ELSE fca_due
      rp1   == IF flow_control # 0 THEN rp_granted_units - 1 ELSE rp_granted_units
      owed1 == IF flow_control # 0 /\ HasFCA(m) /\ fca_owed # 0 THEN 0 ELSE fca_owed
      grant == flow_control # 0 /\ GrantDue(rp1, fc_current_window, owed1)
  IN  [fc_byte |-> fcb1,
       fca_due |-> due1,
       fca_owed |-> IF grant THEN 1 ELSE owed1,
       rp |-> IF grant THEN rp1 + fc_current_window ELSE rp1,
       \* what send() at line 497 puts on dlsw_wfd
       sent |-> IF grant THEN <<IfcmMsg>> ELSE <<>>,
       \* DLSwwlen and DLSw_wbuf as the switch finds them
       grant |-> grant,
       DLSwwlen |-> IF grant THEN LEN_INFO ELSE 0,
       DLSw_wbuf |-> IF grant THEN IfcmMsg ELSE INFOFRAME_Hdr]

(***************************************************************************)
(* proc_DLSw: the switch on the message type (lines 504-732)               *)
(***************************************************************************)
\* the header-only reply built from the received header (lines 521-529 ...)
ReplyToMut(m, mtyp) ==
  [m EXCEPT !.mtyp = mtyp, !.mlen = 0, !.dir = DIR_ORG,
            !.rdlc = dlc, !.rdpid = dlc_pid, !.body = <<>>]
ReplyTo(m, mtyp) ==
  [m EXCEPT !.mtyp = mtyp, !.mlen = 0, !.dir = DIR_ORG,
            !.rdlc = m.odlc, !.rdpid = m.odpid, !.body = <<>>]

GDSid(m) == BitOr(BodyAt(m, 2) * 256, BodyAt(m, 3))

\* what the switch leaves unchanged
Keep(f) ==
  [state |-> state, flow_control |-> flow_control, dlc |-> dlc, dlc_pid |-> dlc_pid,
   PUtype |-> PUtype, IDBLK |-> IDBLK, IDNUM |-> IDNUM,
   seq_Ns |-> seq_Ns, SDLCwlen |-> SDLCwlen, SDLC_wbuf |-> SDLC_wbuf,
   fc_init_window_size |-> fc_init_window_size,
   fc_current_window |-> fc_current_window,
   rp |-> f.rp, lp |-> lp_granted_units, fca_owed |-> f.fca_owed,
   sig |-> <<>>, DLSwwlen |-> f.DLSwwlen, DLSw_wbuf |-> f.DLSw_wbuf]

\* INFOFRAME (lines 636-657): the length prefix and the I-frame are appended
\* to SDLC_wbuf at SDLCwlen
Enqueue(buf, wlen, P, Ns, Nr) ==
  LET IFRAMlen == U16(Len(P) + 6)
      b1 == Wr(buf, wlen, Hi(IFRAMlen))
      w1 == U16(wlen + 1)
      b2 == Wr(b1, w1, Lo(IFRAMlen))
      w2 == U16(w1 + 1)
  IN  [SDLC_wbuf |-> WrSeq(b2, w2, IFrameOf(P, Ns, Nr)),
       SDLCwlen  |-> U16(w2 + Len(P) + 6)]

\* signal = ~RTS, a uint8_t
NotRTS == 255 - RTS

Switch(m, f) ==
  LET K == Keep(f) IN
  CASE m.mtyp = CANUREACH ->
         IF conlfd = ON
         THEN [K EXCEPT !.DLSw_wbuf = [ReplyTo(m, ICANREACH) EXCEPT !.sflg = m.sflg],
                        !.DLSwwlen = m.hlen,
                        !.state = CIRCUIT_START]
         ELSE K
    [] m.mtyp = REACH_ACK ->
         [K EXCEPT !.state = CIRCUIT_ESTABLISHED, !.flow_control = 1,
                   !.dlc = m.odlc, !.dlc_pid = m.odpid]
    [] m.mtyp = XIDFRAME ->
         IF m.mlen > 0
         THEN [K EXCEPT !.PUtype = BodyAt(m, 0),
                        !.IDBLK = U16(BodyAt(m, 2) * 256 + BodyAt(m, 3)),
                        !.IDNUM = U16(BodyAt(m, 4) * 256 + BodyAt(m, 5)),
                        !.DLSw_wbuf = [ReplyTo(m, CONTACT) EXCEPT !.fcb = f.fc_byte],
                        !.DLSwwlen = m.hlen]
         ELSE [K EXCEPT !.DLSw_wbuf = [m EXCEPT !.mtyp = XIDFRAME, !.dir = DIR_ORG,
                                                !.fcb = f.fc_byte,
                                                !.rdlc = m.odlc, !.rdpid = m.odpid,
                                                !.body = XIDFRAME_Rsp,
                                                !.mlen = Len(XIDFRAME_Rsp)],
                        !.DLSwwlen = LEN_CTRL + Len(XIDFRAME_Rsp)]
    [] m.mtyp = CONTACT ->
         [K EXCEPT !.DLSw_wbuf = [ReplyTo(m, CONTACT) EXCEPT !.fcb = f.fc_byte],
                   !.DLSwwlen = m.hlen,
                   !.state = CONNECT_PENDING]
    [] m.mtyp = CONTACTED ->
         [K EXCEPT !.dlc = m.odlc, !.dlc_pid = m.odpid,
                   !.state = CONNECTED, !.sig = <<RTS>>]
    [] m.mtyp = ICANREACH ->
         [K EXCEPT !.DLSw_wbuf = [ReplyTo(m, REACH_ACK) EXCEPT !.fcb = f.fc_byte],
                   !.DLSwwlen = m.hlen]
    [] m.mtyp = INFOFRAME ->
         LET q == Enqueue(SDLC_wbuf, SDLCwlen, m.body, seq_Ns, seq_Nr)
         IN  [K EXCEPT !.SDLC_wbuf = q.SDLC_wbuf, !.SDLCwlen = q.SDLCwlen,
                       !.seq_Ns = NextSeq(seq_Ns)]
    [] m.mtyp = HALT_DL ->
         [K EXCEPT !.DLSw_wbuf = ReplyTo(m, DL_HALTED),
                   !.DLSwwlen = m.hlen,
                   !.sig = <<NotRTS>>]
    [] m.mtyp = RESTART_DL ->
         [K EXCEPT !.DLSw_wbuf = ReplyTo(m, DL_RESTARTED),
                   !.DLSwwlen = m.hlen]
    [] m.mtyp = CAP_EXCHANGE /\ GDSid(m) = GDS_REQUEST ->
         LET w == BodyAt(m, CAP_IPW_OFF + 2) * 256 + BodyAt(m, CAP_IPW_OFF + 3)
         IN  [K EXCEPT !.fc_init_window_size = w, !.fc_current_window = w,
                       !.rp = w, !.lp = w, !.fca_owed = 0,
                       !.DLSw_wbuf = [CONTROL_MSG_Hdr EXCEPT
                                        !.mtyp = CAP_EXCHANGE, !.dir = DIR_TGT,
                                        !.body = CAP_EXCHANGE_Rsp,
                                        !.mlen = CAP_EXCHANGE_Rsp[1] * 256
                                                 + CAP_EXCHANGE_Rsp[2]],
                       !.DLSwwlen = LEN_CTRL + Len(CAP_EXCHANGE_Rsp)]
    [] OTHER -> K

proc_DLSw(m) == Switch(m, FlowIn(m))

(***************************************************************************)
(* main: one read of the inbound DLSw socket (lines 994-1037).  The read   *)
(* may deliver several messages; proc_DLSw is called once, on the bytes    *)
(* at the start of DLSw_rbuf.  The capabilities exchange of lines 975-992  *)
(* comes first in the loop body, so no read is made while it is pending.   *)
(***************************************************************************)
CapexPending == conrfd = ON /\ conwfd = ON /\ capex = OFF

RecvDLSw(rd) ==
  LET m == rd[1]
  IN  /\ ~halted
      /\ conrfd = ON
      /\ ~CapexPending
      /\ m.mtyp = INFOFRAME => SDLCwlen + Len(m.body) + 8 <= MaxWbuf
      /\ rp_granted_units > -MaxDebt
      /\ \E f \in {FlowIn(m)} : \E r \in {proc_DLSw(m)} :
         /\ fc_byte' = f.fc_byte
         /\ fca_due' = f.fca_due
         /\ fca_owed' = r.fca_owed
         /\ rp_granted_units' = r.rp
         /\ lp_granted_units' = r.lp
         /\ fc_init_window_size' = r.fc_init_window_size
         /\ fc_current_window' = r.fc_current_window
         /\ flow_control' = r.flow_control
         /\ state' = r.state
         /\ dlc' = r.dlc
         /\ dlc_pid' = r.dlc_pid
         /\ PUtype' = r.PUtype
         /\ IDBLK' = r.IDBLK
         /\ IDNUM' = r.IDNUM
         /\ seq_Ns' = r.seq_Ns
         /\ SDLCwlen' = r.SDLCwlen
         /\ SDLC_wbuf' = r.SDLC_wbuf
         /\ dlsw_out' = f.sent \o (IF r.DLSwwlen # 0 THEN <<r.DLSw_wbuf>> ELSE <<>>)
         /\ sig_out' = r.sig
         /\ line_out' = <<>>
      /\ UNCHANGED <<seq_Nr, rs232_stat, connVars, halted>>

(***************************************************************************)
(* main: one read of the SDLC line (lines 1083-1282)                       *)
(***************************************************************************)
\* SDLC_rbuf[i], 0-based; the reads of the model end with a link trailer,
\* so the frame search never looks past the bytes read
B(buf, i) == IF i < Len(buf) THEN buf[i + 1] ELSE 0

\* lines 1097-1101: skip modem clocking and consecutive start flags
RECURSIVE SkipFlags(_, _)
SkipFlags(buf, Fptr) ==
  IF B(buf, Fptr) = 126 /\ B(buf, Fptr + 1) = 126 /\ Fptr < Len(buf) - 1
  THEN SkipFlags(buf, Fptr + 1)
  ELSE Fptr

FirstFptr(buf) ==
  SkipFlags(buf, IF B(buf, 0) = 0 \/ B(buf, 0) = 170 THEN 1 ELSE 0)

\* lines 1108-1116: the frame ends with the first 47 0F 7E at or after Fptr
TrailerAt(buf, i) ==
  B(buf, i) = 71 /\ B(buf, i + 1) = 15 /\ B(buf, i + 2) = 126

RECURSIVE FrameSearch(_, _, _)
FrameSearch(buf, Fptr, frame_len) ==
  IF TrailerAt(buf, Fptr + frame_len) THEN frame_len + 3
  ELSE IF Fptr + frame_len >= Len(buf) THEN -1
  ELSE FrameSearch(buf, Fptr, frame_len + 1)

\* a read that ends with a link trailer
Terminated(buf) == Len(buf) >= 3 /\ TrailerAt(buf, Len(buf) - 3)

\* if (state == CONNECTED) at lines 1139 and 1252
ForwardAllowedMut(st) == TRUE
ForwardAllowed(st) == st = CONNECTED

\* lines 1141-1151
XidResponse(addr) ==
  <<126, addr, U8(XID + CFinal), PUtype, 0,
    Hi(IDBLK), Lo(IDBLK), Hi(IDNUM), Lo(IDNUM)>> \o SDLC_FCSLT

\* lines 1169-1173
UaResponse(addr) == <<126, addr, U8(UA + CFinal)>> \o SDLC_FCSLT

\* lines 1211-1220
SupResponse(addr, Nr) ==
  LET c == IF lp_granted_units > 0 THEN RR + CFinal ELSE RNR + CFinal
  IN  <<126, addr, BitOr(BitAnd(c, 31), U8(Nr * 32))>> \o SDLC_FCSLT

\* lines 1197-1209: send the I-frame at the front of SDLC_wbuf and move the
\* rest to the front.  ub is what a read past the end of SDLC_wbuf yields:
\* -1 a fault that ends the process, otherwise the byte read
Drain(S, ub) ==
  LET IFRAMlen == U16(Rd(S.SDLC_wbuf, 0) * 256 + Rd(S.SDLC_wbuf, 1))
      newlen   == U16((S.SDLCwlen - IFRAMlen) - 2)
      past     == \/ 2 + IFRAMlen > BUFSIZE
                  \/ newlen > 0 /\ IFRAMlen + 2 + newlen > BUFSIZE
      g        == IF ub < 0 THEN 0 ELSE ub
  IN  IF past /\ ub < 0
      THEN [S EXCEPT !.halted = TRUE]
      ELSE [S EXCEPT !.line_out = Append(@, Bytes(S.SDLC_wbuf, 2, IFRAMlen, g)),
                     !.SDLCwlen = newlen,
                     !.SDLC_wbuf = IF newlen > 0
                                   THEN MemMoveFront(@, IFRAMlen + 2, newlen, g)
                                   ELSE @]

\* a response built at the front of SDLC_wbuf and sent from there
Respond(S, resp) ==
  The({ [S EXCEPT !.SDLC_wbuf = b, !.line_out = Append(@, Bytes(b, 0, Len(r), 0))]
        : <<r, b>> \in {<<rr, WrSeq(S.SDLC_wbuf, 0, rr)>> : rr \in {resp}} })

\* lines 1241-1249: the INFOFRAME built from an SDLC I-frame
UpstreamMsg(buf, Fptr, frame_len) ==
  [INFOFRAME_Hdr EXCEPT
     !.mtyp = INFOFRAME, !.fcb = fc_byte, !.rdlc = dlc, !.rdpid = dlc_pid,
     !.mlen = Hi(frame_len - 6) * 256 + Lo(frame_len - 6),
     !.body = [k \in 1..(frame_len - 6) |-> B(buf, Fptr + 3 + k - 1)]]

\* lines 1129-1273: one frame of the read
ProcFrame(S, buf, Fptr, frame_len, ub) ==
  LET ctl    == B(buf, Fptr + 2)
      addr   == B(buf, Fptr + 1)
      Cfield == BitAnd(ctl, 3)
      poll   == BitAnd(ctl, CPoll) # 0
  IN  CASE Cfield = UNNUM ->
             IF BitAnd(ctl, 239) = XID
             THEN (IF ForwardAllowed(state) /\ poll
                   THEN Respond(S, XidResponse(addr)) ELSE S)
             ELSE IF BitAnd(ctl, 239) = SNRM
             THEN [(IF poll THEN Respond(S, UaResponse(addr)) ELSE S)
                     EXCEPT !.seq_Nr = 0, !.seq_Ns = 0, !.SDLCwlen = 0]
             ELSE S
        [] Cfield = SUPRV ->
             IF (BitAnd(ctl, 15) = RR \/ BitAnd(ctl, 15) = RNR) /\ poll
             THEN (IF S.SDLCwlen > 0 /\ BitAnd(ctl, 15) = RR
                   THEN Drain(S, ub)
                   ELSE Respond(S, SupResponse(addr, S.seq_Nr)))
             ELSE S
        [] OTHER ->
             IF frame_len - 6 < 0
             THEN \* memcpy with a negative length: the process faults
                  [S EXCEPT !.seq_Nr = NextSeq(@), !.halted = TRUE]
             ELSE [S EXCEPT !.seq_Nr = NextSeq(@),
                            !.dlsw_out = IF ForwardAllowed(state)
                                         THEN Append(@, UpstreamMsg(buf, Fptr, frame_len))
                                         ELSE @]

\* lines 1107-1280: the frames of the read, one at a time
RECURSIVE ProcFrames(_, _, _, _)
ProcFrames(S, buf, Fptr, ub) ==
  The({ IF frame_len < 0 THEN [S EXCEPT !.halted = TRUE]
        ELSE The({ IF S1.halted \/ ~(Fptr + frame_len < Len(buf)) THEN S1
                   ELSE ProcFrames(S1, buf, Fptr + frame_len, ub)
                   : S1 \in {ProcFrame(S, buf, Fptr, frame_len, ub)} })
        : frame_len \in {FrameSearch(buf, Fptr, 0)} })

ReadLine(buf, ub) ==
  LET S0 == [seq_Nr |-> seq_Nr, seq_Ns |-> seq_Ns, SDLCwlen |-> SDLCwlen,
             SDLC_wbuf |-> SDLC_wbuf, line_out |-> <<>>, dlsw_out |-> <<>>,
             halted |-> FALSE]
      Fptr == FirstFptr(buf)
  IN  /\ ~halted
      /\ conlfd = ON
      /\ Len(buf) > 0
      /\ Terminated(buf)
      /\ SDLCwlen <= MaxWbuf
      /\ \E S \in {IF Fptr <= Len(buf) - 6 THEN ProcFrames(S0, buf, Fptr, ub) ELSE S0} :
         /\ seq_Nr' = S.seq_Nr
         /\ seq_Ns' = S.seq_Ns
         /\ SDLCwlen' = S.SDLCwlen
         /\ SDLC_wbuf' = S.SDLC_wbuf
         /\ line_out' = S.line_out
         /\ dlsw_out' = S.dlsw_out
         /\ halted' = S.halted
         /\ sig_out' = <<>>
      /\ UNCHANGED <<flowVars, circVars, connVars, rs232_stat>>

(***************************************************************************)
(* main: connection management                                             *)
(***************************************************************************)
Quiet == dlsw_out' = <<>> /\ line_out' = <<>> /\ sig_out' = <<>>

\* lines 952-965: accept the inbound connection
PeerAccept ==
  /\ ~halted /\ conrfd = OFF /\ dlsw_rfd < 1
  /\ conrfd' = ON /\ dlsw_rfd' = 1
  /\ Quiet
  /\ UNCHANGED <<flowVars, circVars, sdlcVars, conwfd, conlfd, capex, rs232_stat, halted>>

\* lines 967-973: the outbound connection is established
PeerConnect ==
  /\ ~halted /\ conwfd = OFF
  /\ conwfd' = ON
  /\ Quiet
  /\ UNCHANGED <<flowVars, circVars, sdlcVars, conrfd, conlfd, capex, dlsw_rfd,
                 rs232_stat, halted>>

\* lines 975-992: our capabilities exchange request
CapexRequest ==
  [CONTROL_MSG_Hdr EXCEPT !.mtyp = CAP_EXCHANGE,
                          !.mlen = CAP_EXCHANGE_Msg[1] * 256 + CAP_EXCHANGE_Msg[2],
                          !.body = CAP_EXCHANGE_Msg]

SendCapex ==
  /\ ~halted /\ CapexPending
  /\ capex' = ON
  /\ dlsw_out' = <<CapexRequest>> /\ line_out' = <<>> /\ sig_out' = <<>>
  /\ UNCHANGED <<flowVars, circVars, sdlcVars, conrfd, conwfd, conlfd, dlsw_rfd,
                 rs232_stat, halted>>

\* lines 1001-1010: the inbound connection is found dropped; the descriptor
\* is replaced by a new socket
PeerDrop ==
  /\ ~halted /\ conrfd = ON /\ ~CapexPending
  /\ conrfd' = OFF /\ dlsw_rfd' = 1
  /\ Quiet
  /\ UNCHANGED <<flowVars, circVars, sdlcVars, conwfd, conlfd, capex, rs232_stat, halted>>

\* lines 1043-1054
LineConnect ==
  /\ ~halted /\ conlfd = OFF
  /\ conlfd' = ON
  /\ Quiet
  /\ UNCHANGED <<flowVars, circVars, sdlcVars, conrfd, conwfd, capex, dlsw_rfd,
                 rs232_stat, halted>>

\* lines 1065-1081
LineDrop ==
  /\ ~halted /\ conlfd = ON
  /\ conlfd' = OFF
  /\ Quiet
  /\ UNCHANGED <<flowVars, circVars, sdlcVars, conrfd, conwfd, capex, dlsw_rfd,
                 rs232_stat, halted>>

\* ReadSig (lines 1307-1331), called at line 1059 on every pass with the line
\* connected: sig is the last signal byte pending on the RS232 socket
ReadSig(sig) ==
  /\ ~halted /\ conlfd = ON
  /\ IF BitAnd(sig, RTS) # 0 /\ state = CONNECTED
     THEN /\ rs232_stat' = BitOr(rs232_stat, CTS)
          /\ sig_out' = <<BitOr(rs232_stat, CTS)>>
     ELSE /\ rs232_stat' = rs232_stat
          /\ sig_out' = <<>>
  /\ dlsw_out' = <<>> /\ line_out' = <<>>
  /\ UNCHANGED <<flowVars, circVars, sdlcVars, connVars, halted>>

(***************************************************************************)
(* Part II: the communication scanner (src/I3705/i3705_scan_T2.c) and the  *)
(* line interface base (src/I3705/i3705_lib.c).                            *)
(*                                                                         *)
(* Three threads share the state: the scanner (CS2_thread), the LIB        *)
(* worker (LIB_thread) and the CPU.  The scanner's section under icw_lock  *)
(* is one step, except that an update of RS232[] made without rs232_lock   *)
(* is split into its read and its write; ReadSig, which holds rs232_lock,  *)
(* is split likewise, so that either thread can store over the other's     *)
(* update.  The per-line arrays are functions on Lines.  A socket          *)
(* descriptor is 0 (none) or the number of a connection; live is the set   *)
(* of connections IsSocketConnected finds connected.                       *)
(***************************************************************************)
\* lines scanned (MAX_LINES of i3705_defs.h)
MAX_LINES == 2
Lines == 0..(MAX_LINES - 1)

RI  == 64
DSR == 32
DCD == 16
DTR == 4
SYN == 50

\* the descriptor an uninitialised fd field may hold: no connection has it
JunkFd == 99

Has(x, bits) == BitAnd(x, bits) # 0
SetBits(x, bits) == BitOr(x, bits)
ClrBits(x, bits) == BitAnd(x, 255 - BitAnd(bits, 255))

(***************************************************************************)
(* i3705_lib.c: the buffers between the scanner and the data connection    *)
(***************************************************************************)
\* IsSocketConnected (lines 232-244)
IsSocketConnected(fd) == fd >= 1 /\ fd \in live

\* proc_LIBtdata (lines 364-406) on the line record W of the scan step
FlushStates == {12, 13}

proc_LIBtdata(W, LIBtchar, st) ==
  LET W1 == IF W.lib.LIBsync = 1 /\ st \in FlushStates
            THEN [W EXCEPT !.lib.LIBsync = 0,
                           !.sent = Append(@, [fd |-> W.lib.d327x_fd,
                                               data |-> W.lib.LIB_tbuf]),
                           !.lib.LIB_tbuf = <<>>]
            ELSE W
      W2 == IF W1.lib.LIBsync = 1 /\ st # 8
            THEN [W1 EXCEPT !.lib.LIB_tbuf = Append(@, LIBtchar)]
            ELSE W1
  IN  IF st = 8 /\ W2.lib.LIBsync # 1
      THEN [W2 EXCEPT !.lib.LIBsync = 1, !.lib.LIB_tbuf = <<>>]
      ELSE W2

\* ReadLIB (lines 326-358); LIBrlen is the length of LIB_rbuf
ReadLIB(W) ==
  LET W0 == [W EXCEPT !.lib.LIB_rbuf = <<>>]
  IN  IF W.lib.d327x_fd > 0
      THEN IF IsSocketConnected(W.lib.d327x_fd)
           THEN [W0 EXCEPT !.lib.LIB_rbuf = W.dat_in, !.dat_in = <<>>]
           ELSE [W0 EXCEPT !.closed = @ \cup {W.lib.d327x_fd},
                           !.lib.d327x_fd = 0, !.dat_in = <<>>,
                           !.ops = Append(@, [set |-> 0, clr |-> DCD + DSR + RI])]
      ELSE W0

\* (state == 0x4) || (state == 0x5) at line 429: the character stays in the
\* buffer
PeeksMut(st) == FALSE
Peeks(st) == st = 4 \/ st = 5

\* proc_LIBrdata (lines 411-438): ret is its return code, ch the character
proc_LIBrdata(W, st) ==
  LET W1 == IF W.lib.LIB_rbuf = <<>> THEN ReadLIB(W) ELSE W
      buf == W1.lib.LIB_rbuf
      rest == IF Peeks(st) THEN buf ELSE Tail(buf)
  IN  IF Len(buf) > 0
      THEN [W1 EXCEPT !.ch = Head(buf), !.lib.LIB_rbuf = rest,
                      !.ret = IF rest = <<>> THEN 2 ELSE 1]
      ELSE [W1 EXCEPT !.ret = 0]

\* proc_LIBdisbuf (lines 207-215)
proc_LIBdisbuf(W) == [W EXCEPT !.lib.LIB_rbuf = <<>>]

(***************************************************************************)
(* i3705_scan_T2.c: one scan of a line (lines 228-660)                     *)
(***************************************************************************)
\* the fields of line l the scan step works on
LineRec(l) ==
  [scf |-> icw_scf[l], pdf |-> icw_pdf[l], lcd |-> icw_lcd[l],
   pcf |-> icw_pcf[l], sdf |-> icw_sdf[l], prev |-> icw_pcf_prev[l],
   stat |-> icw_lne_stat[l], nxt |-> icw_pcf_nxt[l], reg |-> icw_pdf_reg[l],
   Eflg |-> Eflg_rcvd[l], FCS |-> FCS_rcvd[l],
   rs |-> RS232[l], req |-> CS2_req_L2_int,
   lib |-> LIBline[l], dat_in |-> dat_in[l],
   ch |-> 0, ret |-> 0, ops |-> <<>>, sent |-> <<>>, closed |-> {}]

\* lines 229-237: the PCF written by the NCP is adopted
Adopt(W) ==
  IF W.pcf # W.nxt
  THEN [W EXCEPT !.stat = IF W.nxt = 0 THEN "RESET" ELSE @,
                 !.prev = W.pcf, !.pcf = W.nxt]
  ELSE W

\* (svc_req_L2 == ON) || (lvl == 2)
L2Active == svc_req_L2 = ON \/ lvl = 2

\* PCF 6, 7, 8, 9 and A break out while a level 2 interrupt is active
Suspended(pcf) == pcf \in {6, 7, 8, 9, 10} /\ L2Active

\* !(RS232[line] & CTS) at line 460
CtsLowMut(rs) == FALSE
CtsLow(rs) == ~Has(rs, CTS)

\* request a level 2 interrupt with the service request flag set
Service(W, nxt) == [W EXCEPT !.scf = SetBits(@, 64), !.nxt = nxt, !.req = ON]

\* case 0x1 (lines 248-266); RS232[line] |= DTR is made under rs232_lock
Pcf1(W) ==
  [W EXCEPT !.scf = SetBits(BitAnd(@, 74), 64), !.sdf = SetBits(@, 8),
            !.rs = SetBits(@, DTR), !.nxt = 0, !.req = ON]

\* case 0x2 (lines 268-289)
Pcf2(W) ==
  IF Has(W.rs, DCD)
  THEN [W EXCEPT !.scf = SetBits(SetBits(@, 8), 64),
                 !.nxt = IF Has(W.rs, DSR) THEN 4 ELSE 2, !.req = ON]
  ELSE [W EXCEPT !.nxt = 2, !.scf = BitAnd(@, 247)]

\* case 0x3 (lines 291-300)
Pcf3(W) == IF W.prev # W.pcf THEN Service(W, 0) ELSE W

\* cases 0x4 and 0x5 (lines 302-355)
Pcf45(W) ==
  IF ~Has(W.rs, DSR) THEN Service(W, 2)
  ELSE IF W.stat = "TX" THEN W
  ELSE IF W.lcd = 12
  THEN LET R == proc_LIBrdata(W, W.pcf)
       IN  IF R.ret # 1 THEN R
           ELSE IF R.ch = SYN
           THEN [R EXCEPT !.pdf = R.ch, !.nxt = 7, !.sdf = SetBits(@, 4)]
           ELSE R
  ELSE IF W.lcd = 8 \/ W.lcd = 9
  THEN LET R == proc_LIBrdata([W EXCEPT !.Eflg = OFF], W.pcf)
       IN  IF R.ret = 0 THEN R
           ELSE IF R.ch = 126
           THEN [R EXCEPT !.scf = SetBits(@, 4), !.lcd = 9, !.nxt = 6, !.req = ON]
           ELSE [proc_LIBdisbuf(R) EXCEPT !.nxt = 5]
  ELSE W

\* case 0x6 (lines 357-387)
Pcf6(W) ==
  LET R == proc_LIBrdata(W, W.pcf)
  IN  IF R.ret = 0 THEN R
      ELSE IF R.ch = 126
      THEN [R EXCEPT !.nxt = 6, !.scf = SetBits(@, 4)]
      ELSE [R EXCEPT !.scf = SetBits(ClrBits(@, 4), 64), !.pdf = R.ch,
                     !.reg = "FILLED", !.nxt = 7, !.req = ON]

\* case 0x7 (lines 389-454)
Pcf7(W) ==
  IF W.lcd = 12
  THEN IF ~Has(W.scf, 64)
       THEN LET R == proc_LIBrdata(W, W.pcf)
            IN  [R EXCEPT !.pdf = IF R.ret # 1 THEN 255 ELSE R.ch,
                          !.scf = SetBits(@, 64), !.nxt = 7, !.req = ON]
       ELSE W
  ELSE IF W.lcd = 8 \/ W.lcd = 9
  THEN LET R == proc_LIBrdata(W, W.pcf)
       IN  IF R.ret = 0 THEN R
           ELSE IF R.ch = 126 /\ R.FCS = <<71, 15>>
           THEN [R EXCEPT !.stat = "TX", !.scf = SetBits(@, 68), !.lcd = 9,
                          !.nxt = 6, !.req = ON, !.Eflg = OFF, !.FCS = <<0, 0>>]
           ELSE [R EXCEPT !.FCS = <<R.FCS[2], R.ch>>, !.Eflg = OFF,
                          !.pdf = R.ch, !.reg = "FILLED",
                          !.scf = SetBits(@, 64), !.nxt = 7, !.req = ON]
  ELSE W

\* case 0x8 (lines 456-504); transmitChar is not looked at in state 8
Pcf8(W) ==
  IF CtsLow(W.rs)
  THEN [W EXCEPT !.ops = Append(@, [set |-> RTS, clr |-> 0])]
  ELSE IF W.lcd = 12
  THEN [proc_LIBtdata(W, W.pdf, W.pcf) EXCEPT
          !.reg = "EMPTY", !.scf = SetBits(@, 64), !.nxt = 9, !.req = ON]
  ELSE IF W.lcd = 9
  THEN [proc_LIBtdata(W, W.pdf, W.pcf) EXCEPT !.scf = BitAnd(@, 251), !.nxt = 9]
  ELSE W

\* cases 0x9 and 0xA (lines 506-578)
Pcf9A(W) ==
  IF \/ W.lcd = 12 /\ ~Has(W.scf, 64)
     \/ W.lcd = 9 /\ W.pcf = 9 /\ W.reg = "FILLED"
  THEN [proc_LIBtdata(W, W.pdf, W.pcf) EXCEPT
          !.reg = "EMPTY", !.scf = SetBits(@, 64), !.nxt = W.pcf, !.req = ON]
  ELSE W

\* case 0xC (lines 583-619); for SDLC transmitChar is what state 9 left,
\* which proc_LIBtdata appends only while the frame is open after the flush
PcfC(W) ==
  LET R == IF (W.lcd = 12 \/ W.lcd = 9) /\ W.prev # W.pcf
           THEN [proc_LIBtdata(W, W.pdf, W.pcf) EXCEPT
                   !.stat = "RX", !.scf = SetBits(@, 64), !.nxt = 5, !.req = ON]
           ELSE W
  IN  [R EXCEPT !.ops = @ \o <<[set |-> 0, clr |-> RTS], [set |-> 0, clr |-> CTS]>>]

\* case 0xD (lines 621-641)
PcfD(W) == IF W.lcd = 12 THEN [W EXCEPT !.nxt = 5, !.req = ON] ELSE W

\* case 0xF (lines 646-657)
PcfF(W) ==
  [W EXCEPT !.scf = SetBits(@, 64), !.sdf = ClrBits(@, 8),
            !.ops = Append(@, [set |-> 0, clr |-> DTR]), !.nxt = 0, !.req = ON]

\* switch (icw_pcf[line]) (lines 239-659)
Dispatch(W) ==
  IF Suspended(W.pcf) THEN W
  ELSE CASE W.pcf = 1 -> Pcf1(W)
         [] W.pcf = 2 -> Pcf2(W)
         [] W.pcf = 3 -> Pcf3(W)
         [] W.pcf \in {4, 5} -> Pcf45(W)
         [] W.pcf = 6 -> Pcf6(W)
         [] W.pcf = 7 -> Pcf7(W)
         [] W.pcf = 8 -> Pcf8(W)
         [] W.pcf \in {9, 10} -> Pcf9A(W)
         [] W.pcf = 12 -> PcfC(W)
         [] W.pcf = 13 -> PcfD(W)
         [] W.pcf = 15 -> PcfF(W)
         [] OTHER -> W

\* nothing is sent by the step
Silent == lib_out' = <<>> /\ rs_out' = <<>>

\* the scanner holds icw_lock
IcwLocked == cs2_pc \in {"rmw_rd", "rmw_wr"}

\* the LIB worker holds rs232_lock
Rs232Locked == lib_pc = "rs_st"

\* lines 228-660: lock, adopt, dispatch; the unlocked updates of RS232[line]
\* follow as steps of their own before the unlock
ScanLine ==
  /\ cs2_pc = "scan"
  /\ icw_pcf_nxt[line] = 1 => ~Rs232Locked
  /\ \E W \in {Dispatch(Adopt(LineRec(line)))} :
       /\ icw_scf' = [icw_scf EXCEPT ![line] = W.scf]
       /\ icw_pdf' = [icw_pdf EXCEPT ![line] = W.pdf]
       /\ icw_lcd' = [icw_lcd EXCEPT ![line] = W.lcd]
       /\ icw_pcf' = [icw_pcf EXCEPT ![line] = W.pcf]
       /\ icw_sdf' = [icw_sdf EXCEPT ![line] = W.sdf]
       /\ icw_pcf_prev' = [icw_pcf_prev EXCEPT ![line] = W.prev]
       /\ icw_lne_stat' = [icw_lne_stat EXCEPT ![line] = W.stat]
       /\ icw_pcf_nxt' = [icw_pcf_nxt EXCEPT ![line] = W.nxt]
       /\ icw_pdf_reg' = [icw_pdf_reg EXCEPT ![line] = W.reg]
       /\ Eflg_rcvd' = [Eflg_rcvd EXCEPT ![line] = W.Eflg]
       /\ FCS_rcvd' = [FCS_rcvd EXCEPT ![line] = W.FCS]
       /\ RS232' = [RS232 EXCEPT ![line] = W.rs]
       /\ CS2_req_L2_int' = W.req
       /\ LIBline' = [LIBline EXCEPT ![line] = W.lib]
       /\ dat_in' = [dat_in EXCEPT ![line] = W.dat_in]
       /\ live' = live \ W.closed
       /\ lib_out' = W.sent
       /\ cs2_ops' = W.ops
       /\ cs2_pc' = IF W.ops = <<>> THEN "post" ELSE "rmw_rd"
  /\ rs_out' = <<>>
  /\ UNCHANGED <<svc_req_L2, abar_int, lvl, line, cs2_tmp, libVars, nfd, pend,
                 sig_in, RS232r, Eregs_Inp>>

\* the read of RS232[line] for an update made without rs232_lock
\* (lines 344, 461, 617, 618, 654)
ScanRmwRead ==
  /\ cs2_pc = "rmw_rd"
  /\ cs2_tmp' = RS232[line]
  /\ cs2_pc' = "rmw_wr"
  /\ Silent
  /\ UNCHANGED <<icwVars, l2Vars, line, cs2_ops, libVars, netVars, RS232, RS232r,
                 Eregs_Inp, LIBline>>

\* ... and its write
ScanRmwWrite ==
  /\ cs2_pc = "rmw_wr"
  /\ RS232' = [RS232 EXCEPT ![line] =
                 ClrBits(SetBits(cs2_tmp, Head(cs2_ops).set), Head(cs2_ops).clr)]
  /\ cs2_ops' = Tail(cs2_ops)
  /\ cs2_pc' = IF Tail(cs2_ops) = <<>> THEN "post" ELSE "rmw_rd"
  /\ Silent
  /\ UNCHANGED <<icwVars, l2Vars, line, cs2_tmp, libVars, netVars, RS232r,
                 Eregs_Inp, LIBline>>

\* while (svc_req_L2 == ON) usleep(1000);
L2FreeMut == TRUE
L2Free == svc_req_L2 = OFF

\* lines 665-682: post-processing; the scanner waits until the CPU has
\* cleared the previous request, then raises its own
ScanPost ==
  /\ cs2_pc = "post"
  /\ IF CS2_req_L2_int = ON
     THEN /\ L2Free
          /\ abar_int' = line + 32
          /\ svc_req_L2' = ON
          /\ CS2_req_L2_int' = OFF
     ELSE UNCHANGED <<abar_int, svc_req_L2, CS2_req_L2_int>>
  /\ cs2_pc' = "commit"
  /\ Silent
  /\ UNCHANGED <<icwVars, lvl, line, cs2_ops, cs2_tmp, libVars, netVars, RS232,
                 RS232r, Eregs_Inp, LIBline>>

\* for (line = 0; line < MAX_LINES; line++) within while (1)
LineAfterMut(l) == l
LineAfter(l) == (l + 1) % MAX_LINES

\* lines 685-698: the next PCF becomes the current one; next line
ScanCommit ==
  /\ cs2_pc = "commit"
  /\ icw_pcf_prev' = [icw_pcf_prev EXCEPT ![line] = icw_pcf[line]]
  /\ icw_pcf' = [icw_pcf EXCEPT ![line] = icw_pcf_nxt[line]]
  /\ line' = LineAfter(line)
  /\ cs2_pc' = "scan"
  /\ Silent
  /\ UNCHANGED <<icw_scf, icw_pdf, icw_lcd, icw_sdf, icw_lne_stat, icw_pcf_nxt,
                 icw_pdf_reg, Eflg_rcvd, FCS_rcvd, l2Vars, cs2_ops, cs2_tmp,
                 libVars, netVars, RS232, RS232r, Eregs_Inp, LIBline>>

\* Get_ICW (lines 708-716); icw_Rflags is never written
Get_ICW(l) ==
  /\ ~IcwLocked
  /\ Eregs_Inp' = [r44 |-> icw_scf[l] * 256 + icw_pdf[l],
                   r45 |-> icw_lcd[l] * 4096 + icw_pcf[l] * 256 + icw_sdf[l],
                   r46 |-> BitOr(BitAnd(RS232[l], 240), 2) * 256,
                   r47 |-> 0]
  /\ Silent
  /\ UNCHANGED <<icwVars, l2Vars, cs2Vars, libVars, netVars, RS232, RS232r, LIBline>>

(***************************************************************************)
(* i3705_lib.c: the LIB worker (lines 526-587)                             *)
(***************************************************************************)
\* lines 528-581: a connection request waiting at the listener is accepted
\* as the data connection; then, with a data connection and no signal
\* connection, the next request is accepted as the signal connection
LibAccept ==
  LET k  == lib_k
      a1 == pend[k] > 0
      d  == IF a1 THEN nfd + 1 ELSE LIBline[k].d327x_fd
      n1 == IF a1 THEN nfd + 1 ELSE nfd
      p1 == IF a1 THEN pend[k] - 1 ELSE pend[k]
      a2 == d > 0 /\ LIBline[k].s327x_fd < 1 /\ p1 > 0
  IN  /\ lib_pc = "accept"
      /\ LIBline' = [LIBline EXCEPT ![k].d327x_fd = d,
                                    ![k].s327x_fd = IF a2 THEN n1 + 1 ELSE @]
      /\ nfd' = IF a2 THEN n1 + 1 ELSE n1
      /\ live' = live \cup (IF a1 THEN {nfd + 1} ELSE {}) \cup (IF a2 THEN {n1 + 1} ELSE {})
      /\ pend' = [pend EXCEPT ![k] = IF a2 THEN p1 - 1 ELSE p1]
      /\ dat_in' = [dat_in EXCEPT ![k] = IF a1 THEN <<>> ELSE @]
      /\ RS232' = [RS232 EXCEPT ![k] = IF a2 THEN DCD + RI ELSE @]
      /\ lib_pc' = "rs"
      /\ Silent
      /\ UNCHANGED <<icwVars, l2Vars, cs2Vars, lib_k, lib_tmp, sig_in, RS232r,
                     Eregs_Inp>>

\* lines 582-583 and 254-256: ReadSig takes rs232_lock and reads RS232[k]
LibReadSig ==
  /\ lib_pc = "rs"
  /\ IF LIBline[lib_k].s327x_fd > 0
     THEN lib_tmp' = RS232[lib_k] /\ lib_pc' = "rs_st" /\ lib_k' = lib_k
     ELSE lib_tmp' = lib_tmp /\ lib_pc' = "accept" /\ lib_k' = (lib_k + 1) % MAX_LINES
  /\ Silent
  /\ UNCHANGED <<icwVars, l2Vars, cs2Vars, netVars, RS232, RS232r, Eregs_Inp, LIBline>>

\* ReadSig lines 256-270: the local DCE signals derived from v = RS232[k]
\* and r = RS232r[k]; x is RS232x[k]
LocalDce(v, r) ==
  LET v1 == IF Has(v, DTR) /\ ~Has(v, DSR) THEN SetBits(v, DSR) ELSE v
      a  == Has(v1, RTS) /\ ~Has(v1, CTS)
      r1 == IF a THEN SetBits(r, RTS) ELSE r
      v2 == IF ~Has(v1, DTR) /\ Has(v1, DSR) THEN ClrBits(v1, DSR) ELSE v1
      b  == ~Has(v2, DTR) /\ Has(v2, RTS)
  IN  [v |-> IF b THEN ClrBits(v2, RTS) ELSE v2,
       r |-> IF b THEN ClrBits(r1, CTS) ELSE r1,
       x |-> a \/ b]

\* ReadSig lines 284-292: the signal byte sig of the remote DCE; v is
\* RS232[k], p the result so far, rlen is LIBrlen
RemoteDce(p, sig, rlen) ==
  LET c == Has(sig, RTS) /\ Has(p.v, DTR) /\ rlen = 0
  IN  [v |-> IF Has(sig, CTS) /\ Has(p.v, DTR) /\ ~Has(p.v, CTS)
             THEN SetBits(p.v, CTS) ELSE p.v,
       r |-> IF c THEN SetBits(p.r, CTS) ELSE p.r,
       x |-> p.x \/ c]

\* the bytes ReadSig reads off the signal connection: with exactly one byte
\* waiting the for loop of lines 276-280 is skipped and nothing is read
SigRead(q) == IF Len(q) > 1 THEN q ELSE <<>>

\* ReadSig lines 256-321, with RS232[k] as read when the lock was taken;
\* a store is made only where the code assigns
LibReadSigStore ==
  LET k  == lib_k
      p0 == LocalDce(lib_tmp, RS232r[k])
      v0 == IF p0.v # lib_tmp THEN p0.v ELSE RS232[k]
      rd == SigRead(sig_in[k])
      p1 == IF rd # <<>>
            THEN RemoteDce([p0 EXCEPT !.v = v0], rd[Len(rd)], Len(LIBline[k].LIB_rbuf))
            ELSE [p0 EXCEPT !.v = v0]
  IN  /\ lib_pc = "rs_st"
      /\ IF IsSocketConnected(LIBline[k].s327x_fd)
         THEN /\ RS232' = [RS232 EXCEPT ![k] = p1.v]
              /\ RS232r' = [RS232r EXCEPT ![k] = p1.r]
              /\ sig_in' = [sig_in EXCEPT ![k] = IF rd # <<>> THEN <<>> ELSE @]
              /\ rs_out' = IF p1.x THEN <<[fd |-> LIBline[k].s327x_fd, sig |-> p1.r]>>
                           ELSE <<>>
              /\ UNCHANGED <<LIBline, live, dat_in>>
         ELSE /\ RS232' = [RS232 EXCEPT ![k] = ClrBits(v0, DCD + DSR + RI)]
              /\ RS232r' = [RS232r EXCEPT ![k] = p0.r]
              /\ LIBline' = [LIBline EXCEPT ![k].d327x_fd = 0, ![k].s327x_fd = 0]
              /\ live' = live \ {LIBline[k].d327x_fd, LIBline[k].s327x_fd}
              /\ dat_in' = [dat_in EXCEPT ![k] = <<>>]
              /\ sig_in' = [sig_in EXCEPT ![k] = <<>>]
              /\ rs_out' = <<>>
      /\ lib_out' = <<>>
      /\ lib_pc' = "accept"
      /\ lib_k' = (lib_k + 1) % MAX_LINES
      /\ UNCHANGED <<icwVars, l2Vars, cs2Vars, lib_tmp, nfd, pend, Eregs_Inp>>

(***************************************************************************)
(* The remote DCE of a line                                                *)
(***************************************************************************)
\* n connection requests arrive at the listener of line k
PeerCalls(k, n) ==
  /\ pend' = [pend EXCEPT ![k] = @ + n]
  /\ Silent
  /\ UNCHANGED <<icwVars, l2Vars, cs2Vars, libVars, live, nfd, dat_in, sig_in,
                 RS232, RS232r, Eregs_Inp, LIBline>>

\* bytes arrive on the data connection of line k
PeerData(k, bytes) ==
  /\ IsSocketConnected(LIBline[k].d327x_fd)
  /\ dat_in' = [dat_in EXCEPT ![k] = @ \o bytes]
  /\ Silent
  /\ UNCHANGED <<icwVars, l2Vars, cs2Vars, libVars, live, nfd, pend, sig_in,
                 RS232, RS232r, Eregs_Inp, LIBline>>

\* a signal byte arrives on the signal connection of line k
PeerSignal(k, sig) ==
  /\ IsSocketConnected(LIBline[k].s327x_fd)
  /\ sig_in' = [sig_in EXCEPT ![k] = Append(@, sig)]
  /\ Silent
  /\ UNCHANGED <<icwVars, l2Vars, cs2Vars, libVars, live, nfd, pend, dat_in,
                 RS232, RS232r, Eregs_Inp, LIBline>>

\* connection fd is lost
PeerHangsUp(fd) ==
  /\ fd \in live
  /\ live' = live \ {fd}
  /\ Silent
  /\ UNCHANGED <<icwVars, l2Vars, cs2Vars, libVars, nfd, pend, dat_in, sig_in,
                 RS232, RS232r, Eregs_Inp, LIBline>>

(***************************************************************************)
(* The CPU (the NCP running on the CCU); its code is not among the         *)
(* sources: it reads and writes the ICW through the register accessors     *)
(* under icw_lock and lowers svc_req_L2 after servicing                    *)
(***************************************************************************)
\* the NCP writes the next PCF of line l
NcpSetPcf(l, v) ==
  /\ ~IcwLocked
  /\ icw_pcf_nxt' = [icw_pcf_nxt EXCEPT ![l] = v]
  /\ Silent
  /\ UNCHANGED <<icw_scf, icw_pdf, icw_lcd, icw_pcf, icw_sdf, icw_pcf_prev,
                 icw_lne_stat, icw_pdf_reg, Eflg_rcvd, FCS_rcvd, l2Vars, cs2Vars,
                 libVars, netVars, RS232, RS232r, Eregs_Inp, LIBline>>

\* the NCP writes the line code definer of line l
NcpSetLcd(l, c) ==
  /\ ~IcwLocked
  /\ icw_lcd' = [icw_lcd EXCEPT ![l] = c]
  /\ Silent
  /\ UNCHANGED <<icw_scf, icw_pdf, icw_pcf, icw_sdf, icw_pcf_prev, icw_lne_stat,
                 icw_pcf_nxt, icw_pdf_reg, Eflg_rcvd, FCS_rcvd, l2Vars, cs2Vars,
                 libVars, netVars, RS232, RS232r, Eregs_Inp, LIBline>>

\* the NCP hands the next byte to transmit to line l: PDF filled, service
\* request flag reset
NcpFillPdf(l, b) ==
  /\ ~IcwLocked
  /\ icw_pdf' = [icw_pdf EXCEPT ![l] = b]
  /\ icw_pdf_reg' = [icw_pdf_reg EXCEPT ![l] = "FILLED"]
  /\ icw_scf' = [icw_scf EXCEPT ![l] = ClrBits(@, 64)]
  /\ Silent
  /\ UNCHANGED <<icw_lcd, icw_pcf, icw_sdf, icw_pcf_prev, icw_lne_stat, icw_pcf_nxt,
                 Eflg_rcvd, FCS_rcvd, l2Vars, cs2Vars, libVars, netVars, RS232,
                 RS232r, Eregs_Inp, LIBline>>

\* the NCP has read the PDF of line l: service request flag reset
NcpTakePdf(l) ==
  /\ ~IcwLocked
  /\ icw_pdf_reg' = [icw_pdf_reg EXCEPT ![l] = "EMPTY"]
  /\ icw_scf' = [icw_scf EXCEPT ![l] = ClrBits(@, 64)]
  /\ Silent
  /\ UNCHANGED <<icw_pdf, icw_lcd, icw_pcf, icw_sdf, icw_pcf_prev, icw_lne_stat,
                 icw_pcf_nxt, Eflg_rcvd, FCS_rcvd, l2Vars, cs2Vars, libVars, netVars,
                 RS232, RS232r, Eregs_Inp, LIBline>>

\* the CPU takes the level 2 interrupt
CpuEnterL2 ==
  /\ svc_req_L2 = ON /\ lvl # 2
  /\ lvl' = 2
  /\ Silent
  /\ UNCHANGED <<icwVars, CS2_req_L2_int, svc_req_L2, abar_int, cs2Vars, libVars,
                 netVars, RS232, RS232r, Eregs_Inp, LIBline>>

\* the CPU has serviced the request: it lowers svc_req_L2 and leaves level 2
CpuExitL2 ==
  /\ lvl = 2
  /\ svc_req_L2' = OFF
  /\ lvl' = 5
  /\ Silent
  /\ UNCHANGED <<icwVars, CS2_req_L2_int, abar_int, cs2Vars, libVars, netVars,
                 RS232, RS232r, Eregs_Inp, LIBline>>

\* Init_ICW (lines 721-740), LIB_thread lines 461-480 and the zero-initialised
\* globals; the fd fields of the malloc'ed LIBLine are not initialised and
\* hold 0 or a descriptor that is no connection
InitI3705 ==
  /\ icw_scf = [l \in Lines |-> 0] /\ icw_pdf = [l \in Lines |-> 0]
  /\ icw_lcd = [l \in Lines |-> 0] /\ icw_pcf = [l \in Lines |-> 14]
  /\ icw_sdf = [l \in Lines |-> 0] /\ icw_pcf_prev = [l \in Lines |-> 0]
  /\ icw_lne_stat = [l \in Lines |-> "RESET"]
  /\ icw_pcf_nxt = [l \in Lines |-> 0]
  /\ icw_pdf_reg = [l \in Lines |-> "EMPTY"]
  /\ Eflg_rcvd = [l \in Lines |-> OFF]
  /\ FCS_rcvd = [l \in Lines |-> <<0, 0>>]
  /\ RS232 = [l \in Lines |-> 0] /\ RS232r = [l \in Lines |-> 0]
  /\ CS2_req_L2_int = OFF /\ svc_req_L2 = OFF /\ abar_int = 0 /\ lvl = 5
  /\ Eregs_Inp = [r44 |-> 0, r45 |-> 0, r46 |-> 0, r47 |-> 0]
  /\ LIBline \in [Lines -> {[d327x_fd |-> d, s327x_fd |-> s, LIB_rbuf |-> <<>>,
                                LIB_tbuf |-> <<>>, LIBsync |-> 0] :
                               d \in {0, JunkFd}, s \in {0, JunkFd}}]
  /\ line = 0 /\ cs2_pc = "scan" /\ cs2_ops = <<>> /\ cs2_tmp = 0
  /\ lib_k = 0 /\ lib_pc = "accept" /\ lib_tmp = 0
  /\ live = {} /\ nfd = 0
  /\ pend = [l \in Lines |-> 0]
  /\ dat_in = [l \in Lines |-> <<>>] /\ sig_in = [l \in Lines |-> <<>>]
  /\ lib_out = <<>> /\ rs_out = <<>>

(***************************************************************************)
(***************************************************************************)
(* Part III: the null modem (NModem_mm.c).  It connects to the data and    *)
(* the signal port of a line on each of two 3705s and passes on what it    *)
(* reads from one to the other.                                            *)
(***************************************************************************)
(***************************************************************************)
NRDY == 0
RDY == 1

NmLines == {1, 2}
Other(i) == 3 - i

\* IsSocketConnected (lines 70-84): getpeername succeeds
NmConnected(fd) == fd = "up"

\* lines 276-288 and 290-301 for line i: S holds linestate, line_fd,
\* rs232_fd, rc1 and rc2; okd and oks say whether the 3705 takes the
\* connection to its data and to its signal port
ConnectLine(i, S, okd, oks) ==
  IF S.linestate[i] # NRDY THEN S
  ELSE LET A == IF ~NmConnected(S.line_fd[i])
                THEN [S EXCEPT !.rc1 = IF okd THEN 0 ELSE -1,
                               !.line_fd[i] = IF okd THEN "up" ELSE @]
                ELSE S
           C == IF A.rc1 = 0 /\ ~NmConnected(A.rs232_fd[i])
                THEN [A EXCEPT !.rc2 = IF oks THEN 0 ELSE -1,
                               !.rs232_fd[i] = IF oks THEN "up" ELSE @]
                ELSE A
       IN  IF C.rc1 = 0 /\ C.rc2 = 0 THEN [C EXCEPT !.linestate[i] = RDY] ELSE C

BothReady(ls) == ls[1] = RDY /\ ls[2] = RDY

\* lines 276-301: the lines that are not ready are connected; the rest of
\* the loop body is entered only with both lines ready (line 303)
NmConnect ==
  /\ nm_pc = "conn"
  /\ \E okd1, oks1, okd2, oks2 \in BOOLEAN :
       LET S0 == [linestate |-> linestate, line_fd |-> line_fd,
                  rs232_fd |-> rs232_fd, rc1 |-> rc1, rc2 |-> rc2]
           S2 == ConnectLine(2, ConnectLine(1, S0, okd1, oks1), okd2, oks2)
       IN  /\ linestate' = S2.linestate /\ line_fd' = S2.line_fd
           /\ rs232_fd' = S2.rs232_fd /\ rc1' = S2.rc1 /\ rc2' = S2.rc2
           /\ nm_pc' = IF BothReady(S2.linestate) THEN "sig" ELSE "conn"
  /\ line_snd' = [i \in NmLines |-> <<>>] /\ rs_snd' = [i \in NmLines |-> <<>>]
  /\ UNCHANGED <<signal, line_in, rs_in>>

\* send() on a socket: a socket that was never connected takes nothing
SendOn(fd, bytes) == IF fd = "new" THEN <<>> ELSE bytes

\* lines 304-311 and 312-319: every pending signal byte of line i is read
\* into signal, and signal is sent once to the other line
PassSignal(i, T) ==
  IF T.rs_in[i] # <<>>
  THEN LET sg == T.rs_in[i][Len(T.rs_in[i])]
       IN  [T EXCEPT !.signal = sg, !.rs_in[i] = <<>>,
                     !.rs_snd[Other(i)] = @ \o SendOn(rs232_fd[Other(i)], <<sg>>)]
  ELSE T

NmSignals ==
  /\ nm_pc = "sig"
  /\ LET T0 == [signal |-> signal, rs_in |-> rs_in,
                rs_snd |-> [i \in NmLines |-> <<>>]]
         T2 == PassSignal(2, PassSignal(1, T0))
     IN  signal' = T2.signal /\ rs_in' = T2.rs_in /\ rs_snd' = T2.rs_snd
  /\ nm_pc' = "l1"
  /\ line_snd' = [i \in NmLines |-> <<>>]
  /\ UNCHANGED <<linestate, line_fd, rs232_fd, rc1, rc2, line_in>>

\* LINErlen = read(...), a uint16_t; send(..., LINErlen, 0)
LINErlen(P) == U16(Len(P))

\* lines 324-366 (i = 1) and 372-413 (i = 2): a line whose data connection
\* is gone is closed and given new sockets; else what is pending on it is
\* read and sent on the data socket of the other line
NmLine(i) ==
  /\ nm_pc = IF i = 1 THEN "l1" ELSE "l2"
  /\ nm_pc' = IF i = 1 THEN "l2" ELSE "conn"
  /\ IF NmConnected(line_fd[i])
     THEN /\ line_in' = [line_in EXCEPT ![i] = <<>>]
          /\ line_snd' = [j \in NmLines |->
                            IF j = Other(i)
                            THEN SendOn(line_fd[j],
                                        SubSeq(line_in[i], 1, LINErlen(line_in[i])))
                            ELSE <<>>]
          /\ UNCHANGED <<linestate, line_fd, rs232_fd, rs_in>>
     ELSE /\ linestate' = [linestate EXCEPT ![i] = NRDY]
          /\ line_fd' = [line_fd EXCEPT ![i] = "new"]
          /\ rs232_fd' = [rs232_fd EXCEPT ![i] = "new"]
          /\ line_in' = [line_in EXCEPT ![i] = <<>>]
          /\ rs_in' = [rs_in EXCEPT ![i] = <<>>]
          /\ line_snd' = [j \in NmLines |-> <<>>]
  /\ rs_snd' = [j \in NmLines |-> <<>>]
  /\ UNCHANGED <<rc1, rc2, signal>>

\* the 3705 of line i sends bytes on its data connection
NmPeerData(i, bytes) ==
  /\ NmConnected(line_fd[i])
  /\ line_in' = [line_in EXCEPT ![i] = @ \o bytes]
  /\ UNCHANGED <<linestate, line_fd, rs232_fd, rc1, rc2, signal, nm_pc, rs_in,
                 line_snd, rs_snd>>

\* the 3705 of line i sends a signal byte
NmPeerSignal(i, sg) ==
  /\ NmConnected(rs232_fd[i])
  /\ rs_in' = [rs_in EXCEPT ![i] = Append(@, sg)]
  /\ UNCHANGED <<linestate, line_fd, rs232_fd, rc1, rc2, signal, nm_pc, line_in,
                 line_snd, rs_snd>>

\* the 3705 of line i goes away: both connections of the line are gone,
\* and with them what was waiting on them
NmPeerDrops(i) ==
  /\ linestate[i] = RDY /\ NmConnected(line_fd[i])
  /\ line_fd' = [line_fd EXCEPT ![i] = "down"]
  /\ rs232_fd' = [rs232_fd EXCEPT ![i] = "down"]
  /\ line_in' = [line_in EXCEPT ![i] = <<>>]
  /\ rs_in' = [rs_in EXCEPT ![i] = <<>>]
  /\ UNCHANGED <<linestate, rc1, rc2, signal, nm_pc, line_snd, rs_snd>>

\* lines 244-273: the four sockets are created, both lines are not ready;
\* rc1, rc2 and signal are not initialised
InitNM ==
  /\ linestate = [i \in NmLines |-> NRDY]
  /\ line_fd = [i \in NmLines |-> "new"]
  /\ rs232_fd = [i \in NmLines |-> "new"]
  /\ rc1 \in {0, -1} /\ rc2 \in {0, -1}
  /\ signal \in {0, RTS}
  /\ nm_pc = "conn"
  /\ line_in = [i \in NmLines |-> <<>>]
  /\ rs_in = [i \in NmLines |-> <<>>]
  /\ line_snd = [i \in NmLines |-> <<>>]
  /\ rs_snd = [i \in NmLines |-> <<>>]

(***************************************************************************)
(* Initial state (the zero-initialised globals and lines 846, 942-945)     *)
(***************************************************************************)
\* what the observers of the specifications below record about the run
HistInit ==
  [read |-> FALSE, expect |-> <<>>,      \* SpecLine
   cap |-> FALSE, n |-> 0, k |-> 0,      \* SpecFlow
   open |-> FALSE, acks |-> 0,           \* SpecAck
   burst |-> <<>>, owed0 |-> 0, clean |-> TRUE, reply1 |-> FALSE,  \* SpecBurst
   queue |-> <<>>, fifo |-> TRUE, m |-> 0, lastNs |-> 0,           \* SpecQueue
   P |-> <<>>, stage |-> 0, frame |-> <<>>,                        \* SpecRT
   ncp |-> 0,                            \* Part II: writes of the NCP
   w |-> [l \in Lines |-> -1],           \* SpecIcw: next PCF written, not adopted
   z |-> [l \in Lines |-> FALSE],        \* SpecIcw: a written PCF 0 was adopted
   done |-> [l \in Lines |-> [scf |-> 0, pdf |-> 0, lcd |-> 0, pcf |-> 14, sdf |-> 0]],
   got |-> FALSE,                        \* SpecGet: Get_ICW was called, and
   at |-> [scf |-> 0, pdf |-> 0, lcd |-> 0, pcf |-> 14, sdf |-> 0],  \* done[l] then
   end |-> [scf |-> 0, pdf |-> 0, lcd |-> 0, pcf |-> 14, sdf |-> 0],
   snx |-> [l \in Lines |-> 14],         \* next PCF as the scan step left it
   lost |-> FALSE,                       \* SpecLib: a channel was lost when the
                                         \* pass of the LIB worker began
   budget |-> 0,                         \* SpecPoll: messages the peer's window
                                         \* still allows to send
   rd |-> <<>>,                          \* SpecRcv: bytes read in the frame so far
   dlv |-> <<>>,                         \* ... and those of them given to the CPU
   sub |-> <<>>,                         \* SpecSub: bytes submitted to proc_LIBtdata
                                         \* since the frame was opened
   echo |-> -1,    \* SpecEcho: the byte sent last on the signal connection
   rsig |-> -1,    \* SpecDce: the signal byte ReadSig read in the step
   rdm |-> <<>>]    \* SpecRead: the messages the read of the step returned

InitProg ==
  /\ state = DISCONNECTED
  /\ flow_control = 0 /\ fc_byte = 0 /\ fca_owed = 0 /\ fca_due = 0
  /\ fc_init_window_size = 0 /\ fc_current_window = 0
  /\ rp_granted_units = 0 /\ lp_granted_units = 0
  /\ dlc = 0 /\ dlc_pid = 0
  /\ PUtype = 0 /\ IDBLK = 0 /\ IDNUM = 0
  /\ seq_Nr = 0 /\ seq_Ns = 0
  /\ SDLCwlen = 0 /\ SDLC_wbuf = EmptyBuf
  /\ rs232_stat = 0
  /\ conrfd = OFF /\ conwfd = OFF /\ conlfd = OFF /\ capex = OFF
  /\ dlsw_rfd = 0
  /\ halted = FALSE
  /\ dlsw_out = <<>> /\ line_out = <<>> /\ sig_out = <<>>

\* the router runs without the scanner: its descriptors are left at 0
NoJunk == \A l \in Lines : LIBline[l].d327x_fd = 0 /\ LIBline[l].s327x_fd = 0

(***************************************************************************)
(* The mutexes of the 3705: icw_lock (i3705_scan_T2.c line 154), rs232_lock *)
(* and line_lock (i3705_lib.c lines 137-138), and the calls of              *)
(* pthread_mutex_lock and pthread_mutex_unlock that the scanner, with the   *)
(* LIB functions it calls, and the LIB worker make.  lk_pc.cs2 and          *)
(* lk_pc.lib are the calls the two threads are at, lk_pc.line and lk_pc.k   *)
(* the lines they work on.                                                  *)
(***************************************************************************)
Mutexes == {"icw", "rs232", "line"}
Threads == {"cs2", "lib"}

\* the mutex CS2_thread takes at line 228 and gives back at line 660
ScanLockMut == "line"
ScanLock == "icw"

\* the mutex thread t is about to lock, "none" if its next call is no lock
Wanted(t) ==
  IF t = "cs2"
  THEN CASE lk_pc.cs2 = "top" -> ScanLock
         [] lk_pc.cs2 = "pcf1" -> "rs232"
         [] lk_pc.cs2 \in {"rdata", "disbuf"} -> "line"
         [] lk_pc.cs2 = "post" -> "icw"
         [] OTHER -> "none"
  ELSE IF lk_pc.lib = "rs" THEN "rs232" ELSE "none"

\* pthread_mutex_lock(m) by thread t returns
LkLock(t, m) == mtx[m] = "free" /\ mtx' = [mtx EXCEPT ![m] = t]

\* pthread_mutex_unlock(m) by thread t
LkUnlock(t, m) == mtx' = [mtx EXCEPT ![m] = "free"]

LkFrame ==
  UNCHANGED <<flowVars, circVars, sdlcVars, connVars, outVars, rs232_stat, halted,
              i3705Vars, nmVars, hist>>

\* CS2_thread line 228: the lock at the top of the scan of a line
LkScanTop ==
  /\ lk_pc.cs2 = "top" /\ LkLock("cs2", ScanLock)
  /\ lk_pc' = [lk_pc EXCEPT !.cs2 = "switch"]
  /\ LkFrame

\* switch (icw_pcf[line]): case 0x1 takes rs232_lock (line 259); cases 0x4
\* to 0x7 call proc_LIBrdata, which calls ReadLIB when the buffer is empty
\* (lib line 415); the other cases take no mutex
LkScanSwitch ==
  /\ lk_pc.cs2 = "switch"
  /\ \E to \in (IF icw_pcf_nxt[lk_pc.line] = 1 THEN {"pcf1"}
                ELSE IF icw_pcf_nxt[lk_pc.line] \in 4..7 THEN {"rdata", "out"}
                ELSE {"out"}) :
       lk_pc' = [lk_pc EXCEPT !.cs2 = to]
  /\ UNCHANGED mtx /\ LkFrame

\* case 0x1, lines 259-261
LkPcf1 ==
  /\ \/ /\ lk_pc.cs2 = "pcf1" /\ LkLock("cs2", "rs232")
        /\ lk_pc' = [lk_pc EXCEPT !.cs2 = "pcf1_in"]
     \/ /\ lk_pc.cs2 = "pcf1_in" /\ LkUnlock("cs2", "rs232")
        /\ lk_pc' = [lk_pc EXCEPT !.cs2 = "out"]
  /\ LkFrame

\* ReadLIB, lib lines 335-337; in PCF 4 and 5 proc_LIBdisbuf may follow
LkReadLIB ==
  /\ \/ /\ lk_pc.cs2 = "rdata" /\ LkLock("cs2", "line")
        /\ lk_pc' = [lk_pc EXCEPT !.cs2 = "rdata_in"]
     \/ /\ lk_pc.cs2 = "rdata_in" /\ LkUnlock("cs2", "line")
        /\ \E to \in (IF icw_pcf_nxt[lk_pc.line] \in {4, 5}
                      THEN {"disbuf", "out"} ELSE {"out"}) :
             lk_pc' = [lk_pc EXCEPT !.cs2 = to]
  /\ LkFrame

\* proc_LIBdisbuf, lib lines 209-211
LkDisbuf ==
  /\ \/ /\ lk_pc.cs2 = "disbuf" /\ LkLock("cs2", "line")
        /\ lk_pc' = [lk_pc EXCEPT !.cs2 = "disbuf_in"]
     \/ /\ lk_pc.cs2 = "disbuf_in" /\ LkUnlock("cs2", "line")
        /\ lk_pc' = [lk_pc EXCEPT !.cs2 = "out"]
  /\ LkFrame

\* CS2_thread line 660: the unlock after the switch
LkScanOut ==
  /\ lk_pc.cs2 = "out" /\ LkUnlock("cs2", ScanLock)
  /\ lk_pc' = [lk_pc EXCEPT !.cs2 = "post"]
  /\ LkFrame

\* CS2_thread lines 685-690: the PCF is updated under icw_lock; next line
LkCommit ==
  /\ \/ /\ lk_pc.cs2 = "post" /\ LkLock("cs2", "icw")
        /\ lk_pc' = [lk_pc EXCEPT !.cs2 = "commit"]
     \/ /\ lk_pc.cs2 = "commit" /\ LkUnlock("cs2", "icw")
        /\ lk_pc' = [lk_pc EXCEPT !.cs2 = "top", !.line = (@ + 1) % MAX_LINES]
  /\ LkFrame

\* LIB_thread lines 526-583: the worker comes to line k; ReadSig is called
\* if the line has a signal connection
LkLibLine ==
  /\ lk_pc.lib = "accept"
  /\ \/ lk_pc' = [lk_pc EXCEPT !.lib = "rs"]
     \/ lk_pc' = [lk_pc EXCEPT !.k = (@ + 1) % MAX_LINES]
  /\ UNCHANGED mtx /\ LkFrame

\* ReadSig, lib lines 255-319
LkReadSig ==
  /\ \/ /\ lk_pc.lib = "rs" /\ LkLock("lib", "rs232")
        /\ lk_pc' = [lk_pc EXCEPT !.lib = "rs_in"]
     \/ /\ lk_pc.lib = "rs_in" /\ LkUnlock("lib", "rs232")
        /\ lk_pc' = [lk_pc EXCEPT !.lib = "accept", !.k = (@ + 1) % MAX_LINES]
  /\ LkFrame

\* no mutex is held, the two threads are at the top of their loops
InitLock ==
  /\ mtx = [m \in Mutexes |-> "free"]
  /\ lk_pc = [cs2 |-> "top", lib |-> "accept", line |-> 0, k |-> 0]

\* the null modem does not run: its locals have the values of a first pass
NmUnset == rc1 = -1 /\ rc2 = -1 /\ signal = 0

Init == InitProg /\ hist = HistInit /\ InitI3705 /\ NoJunk /\ InitNM /\ InitLock /\ NmUnset

(***************************************************************************)
(* Inputs: what the peer DLSw and the SDLC line deliver                    *)
(***************************************************************************)
\* a control message from the peer with origin correlator c and port id c+10
Ctl(t, fcb, c, body) ==
  [CONTROL_MSG_Hdr EXCEPT !.mtyp = t, !.fcb = fcb, !.odlc = c, !.odpid = c + 10,
                          !.body = body, !.mlen = Len(body)]

\* an information message from the peer
Info(t, fcb, body) ==
  [INFOFRAME_Hdr EXCEPT !.mtyp = t, !.fcb = fcb, !.body = body, !.mlen = Len(body)]

\* a capabilities exchange body laid out as CAP_EXCHANGE_Msg
CapBody(gds, w) ==
  [CAP_EXCHANGE_Msg EXCEPT ![3] = Hi(gds), ![4] = Lo(gds), ![16] = Hi(w), ![17] = Lo(w)]

\* PU type 2, IDBLK 017, IDNUM 30001
XidBody == <<2, 0, 1, 115, 0, 1>>

\* an SDLC frame as the line delivers it
Frame(addr, ctl, P) == <<126, addr, ctl>> \o P \o SDLC_FCSLT

RECURSIVE Flatten(_)
Flatten(fs) == IF fs = <<>> THEN <<>> ELSE Head(fs) \o Flatten(Tail(fs))

SeqsUpTo(S, n) == UNION {[1..k -> S] : k \in 1..n}

\* outcomes of a read past the end of SDLC_wbuf: a fault, or a byte of the
\* memory behind it
UBOutcomes == {-1, 0, 255}
\* only the drain of a queued frame reads SDLC_wbuf at a computed offset:
\* with nothing queued the outcomes coincide
UBFor == IF SDLCwlen = 0 THEN {-1} ELSE UBOutcomes

\* the messages of the circuit handshake and of its teardown
CircuitMsgs ==
  {Ctl(t, 0, 1, <<>>) : t \in {CANUREACH, ICANREACH, REACH_ACK, CONTACT, CONTACTED,
                               RESTART_DL, KEEPALIVE, XIDFRAME}}
  \cup {Ctl(HALT_DL, f, c, <<>>) : f \in {0, FCB_FCI}, c \in {1, 2}}

\* the polls of the primary station
CircuitFrames ==
  {Frame(STATION, RR + CPoll, <<>>),
   Frame(STATION, SNRM + CPoll, <<>>),
   Frame(STATION, XID + CPoll, <<>>)}

\* signal bytes of the remote DCE: RTS low, RTS high
Signals == {0, RTS}

(***************************************************************************)
(* The router: every handler of the main loop, on the circuit inputs       *)
(***************************************************************************)
Next ==
  \/ \E m \in CircuitMsgs : RecvDLSw(<<m>>) /\ UNCHANGED <<hist, i3705Vars, nmVars, lockVars>>
  \/ \E fr \in CircuitFrames, ub \in UBFor : ReadLine(fr, ub) /\ UNCHANGED <<hist, i3705Vars, nmVars, lockVars>>
  \/ PeerAccept /\ UNCHANGED <<hist, i3705Vars, nmVars, lockVars>>
  \/ PeerConnect /\ UNCHANGED <<hist, i3705Vars, nmVars, lockVars>>
  \/ SendCapex /\ UNCHANGED <<hist, i3705Vars, nmVars, lockVars>>
  \/ PeerDrop /\ UNCHANGED <<hist, i3705Vars, nmVars, lockVars>>
  \/ LineConnect /\ UNCHANGED <<hist, i3705Vars, nmVars, lockVars>>
  \/ LineDrop /\ UNCHANGED <<hist, i3705Vars, nmVars, lockVars>>
  \/ \E sig \in Signals : ReadSig(sig) /\ UNCHANGED <<hist, i3705Vars, nmVars, lockVars>>

Spec == Init /\ [][Next]_vars

(***************************************************************************)
(* Circuit state (checked under Spec)                                      *)
(***************************************************************************)
\* the transitions of the circuit state table
TableStep(s, t) ==
  \/ s = DISCONNECTED /\ t = CIRCUIT_START
  \/ s = CIRCUIT_START /\ t = CIRCUIT_ESTABLISHED
  \/ s = CIRCUIT_ESTABLISHED /\ t = CONNECT_PENDING
  \/ s = CONNECT_PENDING /\ t = CONNECTED

\* C4: the circuit state changes only along the transitions of the state
\* table (DISCONNECTED -> CIRCUIT_START -> CIRCUIT_ESTABLISHED ->
\* CONNECT_PENDING -> CONNECTED); a handshake message received in any other
\* state leaves the state unchanged.
C4_StateTableOnly == [][state' # state => TableStep(state, state')]_vars

\* the step is the read of message m, handled by proc_DLSw
HaltRead(m) == m.mtyp = HALT_DL /\ RecvDLSw(<<m>>)

\* positions of the DL_HALTED messages among the messages sent
HaltedAt(out) == {i \in DOMAIN out : out[i].mtyp = DL_HALTED}

Teardown == PeerDrop \/ \E m \in CircuitMsgs : HaltRead(m)

\* C6: after a HALT_DL and after the loss of the peer connection the circuit
\* state is DISCONNECTED.
C6_TeardownDisconnects == [][Teardown => state' = DISCONNECTED]_vars

(***************************************************************************)
(* The SDLC -> DLSw path: the handshake messages and the reads of the line *)
(***************************************************************************)
LineMsgs == {Ctl(t, 0, 1, <<>>) : t \in {REACH_ACK, CONTACT, CONTACTED}}

LineFrames ==
  {Frame(STATION, 0, <<5, 6>>),          \* I-frame, two bytes
   Frame(STATION, 2 + CPoll, <<>>),      \* I-frame, no payload, poll
   Frame(STATION, RR + CPoll, <<>>),
   Frame(STATION, SNRM + CPoll, <<>>)}

LineReads == SeqsUpTo(LineFrames, MaxLineFrames)

\* the frame is an information frame: bit 0 of its control byte is 0
IsIFrame(fr) == fr[3] % 2 = 0

\* what the peer is to receive for the frames of one read: an INFOFRAME for
\* every I-frame if the circuit is CONNECTED, nothing otherwise
RECURSIVE Forwarded(_)
Forwarded(fs) ==
  IF fs = <<>> THEN <<>>
  ELSE (IF IsIFrame(Head(fs)) /\ state = CONNECTED
        THEN <<[mtyp |-> INFOFRAME, mlen |-> Len(Head(fs)) - 6,
                rdlc |-> dlc, rdpid |-> dlc_pid]>>
        ELSE <<>>) \o Forwarded(Tail(fs))

\* observer: the step reads the frames fs from the line
ObsRead(fs) == UNCHANGED <<i3705Vars, nmVars, lockVars>> /\ hist' = [hist EXCEPT !.read = TRUE, !.expect = Forwarded(fs)]
\* observer: any other step
ObsOther == UNCHANGED <<i3705Vars, nmVars, lockVars>> /\ hist' = [hist EXCEPT !.read = FALSE, !.expect = <<>>]

NextLine ==
  \/ \E m \in LineMsgs : RecvDLSw(<<m>>) /\ ObsOther
  \/ \E fs \in LineReads, ub \in UBFor :
        \E buf \in {Flatten(fs)} : ReadLine(buf, ub) /\ ObsRead(fs)
  \/ PeerAccept /\ ObsOther
  \/ LineConnect /\ ObsOther

SpecLine == Init /\ [][NextLine]_vars

\* type, length, correlator and port id of the messages sent
Sent(out) ==
  [i \in DOMAIN out |-> [mtyp |-> out[i].mtyp, mlen |-> out[i].mlen,
                         rdlc |-> out[i].rdlc, rdpid |-> out[i].rdpid]]

\* C9: an SDLC I-frame read from the line is forwarded to the peer as an
\* INFOFRAME (message length = frame length - 6, remote correlator and port
\* id = the stored circuit values) if and only if the circuit state is
\* CONNECTED; in every other state nothing is sent for it.
C9_ForwardIffConnected == hist.read => Sent(dlsw_out) = hist.expect

\* C9 witness: two I-frames of one read have been forwarded on a connected circuit
C9_Witness ==
  /\ hist.read /\ state = CONNECTED /\ Len(dlsw_out) = 2 /\ seq_Nr = 3
  /\ dlsw_out[1].mtyp = INFOFRAME /\ dlsw_out[1].mlen = 2 /\ dlsw_out[1].rdlc = dlc
  /\ dlsw_out[2].mtyp = INFOFRAME /\ dlsw_out[2].mlen = 0

(***************************************************************************)
(* Pacing: the granted units of the peer (checked under SpecFlow)          *)
(***************************************************************************)
Windows == {2, 4}

IsCapRequest(m) == m.mtyp = CAP_EXCHANGE /\ GDSid(m) = GDS_REQUEST

FlowMsgs ==
  {Ctl(CAP_EXCHANGE, 0, 1, CapBody(GDS_REQUEST, w)) : w \in Windows}
  \cup {Ctl(t, f, 1, <<>>) : t \in {REACH_ACK, CONTACT, KEEPALIVE}, f \in {0, FCB_FCA}}

\* the IFCM-RPT messages among the messages sent
RptAt(out) ==
  {i \in DOMAIN out : out[i].mtyp = IFCM /\ out[i].fcb = BitOr(FCB_FCI, FCO_RPT)}

\* observer: counts, from the capabilities exchange that sets the window,
\* the messages handled with flow control on and the IFCM-RPT messages sent
ObsFlow(m) ==
  UNCHANGED <<i3705Vars, nmVars, lockVars>> /\ hist' = IF IsCapRequest(m) THEN [hist EXCEPT !.cap = TRUE, !.n = 0, !.k = 0]
          ELSE IF hist.cap /\ flow_control # 0
               THEN [hist EXCEPT !.n = @ + 1, !.k = @ + Cardinality(RptAt(dlsw_out'))]
               ELSE hist

NextFlow ==
  \/ \E m \in FlowMsgs : hist.n < MaxMsgs /\ RecvDLSw(<<m>>) /\ ObsFlow(m)
  \/ PeerAccept /\ UNCHANGED <<hist, i3705Vars, nmVars, lockVars>>
  \/ PeerConnect /\ UNCHANGED <<hist, i3705Vars, nmVars, lockVars>>
  \/ SendCapex /\ UNCHANGED <<hist, i3705Vars, nmVars, lockVars>>

SpecFlow == Init /\ [][NextFlow]_vars

\* C1: counting from the CAP_EXCHANGE that sets the pacing window, after N
\* received messages during which k IFCM-RPT messages were sent,
\* rp_granted_units = initial_window + k * current_window - N.
C1_GrantedUnits ==
  hist.cap => rp_granted_units
                = fc_init_window_size + hist.k * fc_current_window - hist.n

(***************************************************************************)
(* Protocol errors (checked under SpecFlow)                                *)
(***************************************************************************)
\* the message types the switch of proc_DLSw has a case for
Handled ==
  {CANUREACH, REACH_ACK, XIDFRAME, CONTACT, CONTACTED, ICANREACH, INFOFRAME,
   HALT_DL, RESTART_DL, CAP_EXCHANGE}

\* the "Flow Control Protocol Error" branch is taken for m (lines 469-476)
UnexpectedFca(m) == flow_control # 0 /\ HasFCA(m) /\ fca_owed = 0

\* what a protocol error is to leave alone
CircuitKept == UNCHANGED <<state, dlc, dlc_pid, seq_Ns, seq_Nr, SDLCwlen, SDLC_wbuf>>

\* main sends nothing for the message read: all that went out is what the
\* flow control part of proc_DLSw sent itself
NoReply(m) == dlsw_out' = FlowIn(m).sent

\* C21: a message with FCB.FCA set while no acknowledge is owed, and a
\* message whose type is not handled, leave the circuit state, the stored
\* correlators, seq_Ns, seq_Nr and the SDLC tx-buf unchanged and produce no
\* reply.
C21_ProtocolErrorIgnored ==
  [][\A m \in FlowMsgs :
       (UnexpectedFca(m) \/ m.mtyp \notin Handled) /\ RecvDLSw(<<m>>)
          => CircuitKept /\ NoReply(m)]_vars

\* C21, the part that holds: a message of a type that is not handled leaves
\* the circuit state, the correlators, the sequence numbers and the tx-buf
\* unchanged
C21_UnhandledKeepsCircuit ==
  [][\A m \in FlowMsgs :
       m.mtyp \notin Handled /\ RecvDLSw(<<m>>) => CircuitKept]_vars

\* C21, unhandled type alone: nothing is sent in reply
C21_UnhandledNoReply ==
  [][\A m \in FlowMsgs :
       m.mtyp \notin Handled /\ RecvDLSw(<<m>>) => NoReply(m)]_vars

\* C21, unexpected acknowledge alone: the message is not acted upon
C21_UnexpectedFcaIgnored ==
  [][\A m \in FlowMsgs :
       UnexpectedFca(m) /\ ~FlowIn(m).grant /\ RecvDLSw(<<m>>)
          => CircuitKept /\ NoReply(m)]_vars

(***************************************************************************)
(* Pacing: the acknowledges sent to the peer (checked under SpecAck)       *)
(***************************************************************************)
AckMsgs == {Ctl(t, f, 1, <<>>) : t \in {CONTACT, CONTACTED}, f \in {0, FCB_FCI}}

AckReads == SeqsUpTo({Frame(STATION, 0, <<5>>)}, MaxLineFrames)

\* the messages with FCA set among the messages sent
FcaAt(out) == {i \in DOMAIN out : BitAnd(out[i].fcb, FCB_FCA) # 0}

\* observer: the acknowledges sent since the last message received with FCI
ObsAck(fci) ==
  UNCHANGED <<i3705Vars, nmVars, lockVars>> /\ hist' = IF fci
          THEN [hist EXCEPT !.open = TRUE, !.acks = Cardinality(FcaAt(dlsw_out'))]
          ELSE [hist EXCEPT !.acks = @ + Cardinality(FcaAt(dlsw_out'))]

\* the peer sends no further FCI while it waits for the acknowledge of the
\* last one, and the line is read until an acknowledge has gone out twice
NextAck ==
  \/ \E m \in AckMsgs :
        /\ HasFCI(m) => ~(hist.open /\ hist.acks = 0)
        /\ RecvDLSw(<<m>>) /\ ObsAck(HasFCI(m))
  \/ \E fs \in AckReads, ub \in UBFor :
        /\ hist.acks <= 1
        /\ \E buf \in {Flatten(fs)} : ReadLine(buf, ub) /\ ObsAck(FALSE)
  \/ PeerAccept /\ UNCHANGED <<hist, i3705Vars, nmVars, lockVars>>
  \/ LineConnect /\ UNCHANGED <<hist, i3705Vars, nmVars, lockVars>>

SpecAck == Init /\ [][NextAck]_vars

\* C2: for every message received with FCI set the engine sends exactly one
\* message with FCA set before the next message with FCI is received, never
\* more than one, whatever I-frames are forwarded upstream in between.
C2_OneAckPerFci == hist.open => hist.acks <= 1

(***************************************************************************)
(* Pacing: five messages in a row (checked under SpecBurst)                *)
(***************************************************************************)
BurstMsgs ==
  {Ctl(CAP_EXCHANGE, 0, 1, CapBody(GDS_REQUEST, w)) : w \in Windows}
  \cup {Ctl(t, f, 1, <<>>) : t \in {REACH_ACK, CONTACT, KEEPALIVE}, f \in {0, FCB_FCA}}

\* length of the run of messages the claim is about
BurstLen == 5

\* a run is being recorded
InBurst == 0 < Len(hist.burst) /\ Len(hist.burst) < BurstLen

\* flow control enabled, current_window = 4 and rp_granted_units = 4
BurstStart == flow_control # 0 /\ fc_current_window = 4 /\ rp_granted_units = 4

\* observer: from a state with flow control on, window 4 and 4 granted
\* units, the number of IFCM-RPT messages sent while each of the next five
\* messages is processed; whether an acknowledge was owed at the start,
\* whether none of the five carries FCA or sets the window anew, and whether
\* the first of them gets a reply of its own
ObsBurst(m) ==
  LET c    == Cardinality(RptAt(dlsw_out'))
      pure == ~HasFCA(m) /\ ~IsCapRequest(m)
  IN  UNCHANGED <<i3705Vars, nmVars, lockVars>> /\ hist' = IF InBurst
              THEN [hist EXCEPT !.burst = Append(@, c), !.clean = @ /\ pure]
              ELSE IF BurstStart
              THEN [hist EXCEPT !.burst = <<c>>, !.owed0 = fca_owed, !.clean = pure,
                                !.reply1 = \E i \in DOMAIN dlsw_out' :
                                              dlsw_out'[i].mtyp # IFCM]
              ELSE hist

NextBurst ==
  \/ \E m \in BurstMsgs : RecvDLSw(<<m>>) /\ ObsBurst(m)
  \/ PeerAccept /\ UNCHANGED <<hist, i3705Vars, nmVars, lockVars>>
  \/ PeerConnect /\ UNCHANGED <<hist, i3705Vars, nmVars, lockVars>>
  \/ SendCapex /\ UNCHANGED <<hist, i3705Vars, nmVars, lockVars>>

SpecBurst == Init /\ [][NextBurst]_vars

QueueMsgs == {Info(INFOFRAME, 0, P) : P \in {<<>>, <<9>>}}

RRPoll   == Frame(STATION, RR + CPoll, <<>>)
RNRPoll  == Frame(STATION, RNR + CPoll, <<>>)
SNRMPoll == Frame(STATION, SNRM + CPoll, <<>>)

QueueFrames == {RRPoll, RNRPoll, SNRMPoll}

\* observer: the I-frame just appended to SDLC_wbuf joins the queue; m counts
\* the I-frames built since start or the last SNRM, lastNs is the Ns field
\* of the control byte of the latest
ObsEnqueue(m) ==
  LET frame == RdSeq(SDLC_wbuf', SDLCwlen + 2, Len(m.body) + 6)
  IN  UNCHANGED <<i3705Vars, nmVars, lockVars>> /\ hist' = [hist EXCEPT !.queue = Append(@, BytesOf(frame)),
                           !.m = @ + 1,
                           !.lastNs = (frame[3] \div 2) % 8]

\* observer: an RR poll with frames queued is to send the oldest and only
\* that one; an SNRM resets the link and discards what is queued
ObsPoll(fr) ==
  UNCHANGED <<i3705Vars, nmVars, lockVars>> /\ hist' = IF fr = RRPoll /\ hist.queue # <<>>
          THEN [hist EXCEPT !.fifo = @ /\ line_out' = <<Head(hist.queue)>>,
                            !.queue = Tail(@)]
          ELSE IF fr = SNRMPoll
          THEN [hist EXCEPT !.queue = <<>>, !.m = 0]
          ELSE hist

NextQueue ==
  \/ \E m \in QueueMsgs : hist.m < MaxHist /\ RecvDLSw(<<m>>) /\ ObsEnqueue(m)
  \/ \E fr \in QueueFrames, ub \in UBFor : ReadLine(fr, ub) /\ ObsPoll(fr)
  \/ PeerAccept /\ UNCHANGED <<hist, i3705Vars, nmVars, lockVars>>
  \/ LineConnect /\ UNCHANGED <<hist, i3705Vars, nmVars, lockVars>>

SpecQueue == Init /\ [][NextQueue]_vars

\* C7: the I-frames queued by received INFOFRAMEs go to the line in the
\* order they were enqueued, each exactly once: every RR poll received while
\* the queue is not empty removes and sends exactly the oldest I-frame.
C7_FifoDelivery == hist.fifo

\* C10: seq_Ns equals m mod 8, m the number of I-frames built from received
\* INFOFRAMEs since start or since the last SNRM; it stays within 0..7 and
\* the Ns in the control byte of the i-th I-frame is (i-1) mod 8.
C10_SeqNs ==
  /\ seq_Ns \in 0..7
  /\ seq_Ns = hist.m % 8
  /\ hist.m > 0 => hist.lastNs = (hist.m - 1) % 8

\* C10 witness: nine I-frames have been built since the last SNRM and seq_Ns
\* has stepped from 7 through 0 to 1
C10_Witness == hist.m = 9 /\ seq_Ns = 1 /\ hist.lastNs = 0

(***************************************************************************)
(* SpecInfo: INFOFRAMEs from the peer before and after CONTACTED, while    *)
(* the primary sends I-frames and polls on the line                        *)
(***************************************************************************)
InfoMsgs ==
  {Ctl(CONTACTED, 0, 1, <<>>)} \cup {Info(INFOFRAME, 0, P) : P \in {<<>>, <<9, 126>>}}

InfoFrames == {Frame(STATION, 0, <<5>>), RRPoll}

\* INFOFRAMEs received and I-frames read in a run
MaxInfo == 3
MaxNr == 2

NextInfo ==
  \/ \E m \in InfoMsgs :
        IF m.mtyp = INFOFRAME
        THEN hist.m < MaxInfo /\ RecvDLSw(<<m>>) /\ ObsEnqueue(m)
        ELSE RecvDLSw(<<m>>) /\ UNCHANGED <<hist, i3705Vars, nmVars, lockVars>>
  \/ \E fr \in InfoFrames, ub \in UBFor :
        /\ IsIFrame(fr) => seq_Nr < MaxNr
        /\ ReadLine(fr, ub) /\ UNCHANGED <<hist, i3705Vars, nmVars, lockVars>>
  \/ PeerAccept /\ UNCHANGED <<hist, i3705Vars, nmVars, lockVars>>
  \/ LineConnect /\ UNCHANGED <<hist, i3705Vars, nmVars, lockVars>>

SpecInfo == Init /\ [][NextInfo]_vars

\* the step is the read of the INFOFRAME m, handled by proc_DLSw
InfoRead(m) == m.mtyp = INFOFRAME /\ RecvDLSw(<<m>>)

\* fields of the control byte of an I-frame
NsField(c) == (c \div 2) % 8
NrField(c) == c \div 32

\* the step appends to the tx-buf, after the length prefix, the frame
\* 7E C1 ctrl body 47 0F 7E with Ns = seq_Ns and Nr = nr, and steps seq_Ns
Queued(m, nr) ==
  LET L  == Len(m.body)
      fr == RdSeq(SDLC_wbuf', SDLCwlen + 2, L + 6)
  IN  /\ SDLCwlen' = SDLCwlen + 2 + L + 6
      /\ RdSeq(SDLC_wbuf', SDLCwlen, 2) = <<Hi(L + 6), Lo(L + 6)>>
      /\ fr[1] = 126 /\ fr[2] = 193
      /\ NsField(fr[3]) = seq_Ns /\ NrField(fr[3]) = nr
      /\ SubSeq(fr, 4, L + 3) = m.body
      /\ SubSeq(fr, L + 4, L + 6) = <<71, 15, 126>>
      /\ seq_Ns' = (seq_Ns + 1) % 8

\* C24: an INFOFRAME with message length L appends to the SDLC tx-buf the
\* frame 7E C1 ctrl payload 47 0F 7E of L + 6 bytes, with Ns = seq_Ns and
\* Nr = 0 in ctrl, and steps seq_Ns mod 8; this is done only when the
\* circuit is CONNECTED.
C24_InfoFrameQueued ==
  [][\A m \in InfoMsgs : InfoRead(m) =>
       IF state = CONNECTED THEN Queued(m, 0) ELSE UNCHANGED sdlcVars]_vars

\* C24, what the code does: in every circuit state the frame is appended,
\* with Ns = seq_Ns and Nr = seq_Nr
C24_QueuedAsBuilt ==
  [][\A m \in InfoMsgs : InfoRead(m) => Queued(m, seq_Nr)]_vars

\* C24, the Nr field alone, on a connected circuit
C24_NrZero ==
  [][\A m \in InfoMsgs : InfoRead(m) /\ state = CONNECTED => Queued(m, 0)]_vars

\* an INFOFRAME was queued on a connected circuit after an I-frame from the
\* line: seq_Nr is 1 and so is the Nr field of the frame queued
C24_QueuedWithNr ==
  /\ state = CONNECTED /\ seq_Nr = 1 /\ SDLCwlen = 8
  /\ NrField(Rd(SDLC_wbuf, 4)) = 1

(***************************************************************************)
(* SpecPoll: the peer sets the pacing window and contacts the station; the *)
(* primary sends I-frames, which go upstream as INFOFRAMEs, and RR polls   *)
(***************************************************************************)
PollMsgs ==
  {Ctl(CAP_EXCHANGE, 0, 1, CapBody(GDS_REQUEST, 2)), Ctl(CONTACTED, 0, 1, <<>>)}

PollFrames == {Frame(STATION, 0, <<5>>), RRPoll}

\* the INFOFRAMEs among the messages sent
InfoAt(out) == {i \in DOMAIN out : out[i].mtyp = INFOFRAME}

\* observer: the capabilities exchange grants its window; every INFOFRAME
\* sent to the peer uses one unit of it.  The peer of this specification
\* grants nothing further.
ObsBudget(m) ==
  /\ hist' = IF IsCapRequest(m)
             THEN [hist EXCEPT !.budget = fc_current_window']
             ELSE IF fc_current_window > 0
             THEN [hist EXCEPT !.budget = @ - Cardinality(InfoAt(dlsw_out'))]
             ELSE hist
  /\ UNCHANGED <<i3705Vars, nmVars, lockVars>>

NextPoll ==
  \/ \E m \in PollMsgs : RecvDLSw(<<m>>) /\ ObsBudget(m)
  \/ \E fr \in PollFrames, ub \in UBFor :
        /\ IsIFrame(fr) => seq_Nr < MaxNr
        /\ ReadLine(fr, ub) /\ ObsBudget(Ctl(KEEPALIVE, 0, 1, <<>>))
  \/ PeerAccept /\ UNCHANGED <<hist, i3705Vars, nmVars, lockVars>>
  \/ LineConnect /\ UNCHANGED <<hist, i3705Vars, nmVars, lockVars>>

SpecPoll == Init /\ [][NextPoll]_vars

\* the step is the read of an RR poll while the tx-buf is empty, the window
\* having been set
PollRead ==
  fc_current_window > 0 /\ SDLCwlen = 0 /\ \E ub \in UBFor : ReadLine(RRPoll, ub)

\* the supervisory frame 7E addr ctrl 47 0F 7E: ctrl is c with the Final bit
\* and seq_Nr in its high three bits
SupFrame(c) == BytesOf(<<126, STATION, c + CFinal + 32 * seq_Nr, 71, 15, 126>>)

\* C25: an RR poll read while the tx-buf is empty, after the capabilities
\* exchange that opens the pacing window, is answered with one
\* supervisory frame 7E addr ctrl 47 0F 7E, Final bit set, seq_Nr in the high
\* three bits: RR while the send budget granted by the peer is not used up,
\* RNR when it is; lp_granted_units is that budget.
C25_PollReply ==
  [][PollRead =>
       /\ lp_granted_units = hist.budget
       /\ line_out' = <<SupFrame(IF hist.budget > 0 THEN RR ELSE RNR)>>]_vars

\* C25, the part that holds: the reply is the one supervisory frame, RR or
\* RNR by lp_granted_units as it stands
C25_ReplyByGrantedUnits ==
  [][PollRead =>
       line_out' = <<SupFrame(IF lp_granted_units > 0 THEN RR ELSE RNR)>>]_vars

\* the window of two is used up and the poll has been answered with RR
C25_RrOverBudget ==
  /\ hist.budget = 0 /\ lp_granted_units = 2 /\ seq_Nr = 2
  /\ line_out = <<SupFrame(RR)>>

(***************************************************************************)
(* Round trip of an I-frame payload (checked under SpecRT)                 *)
(***************************************************************************)
\* payloads over the bytes of the link trailer, the flag and one other byte
Payloads == UNION {[1..k -> {71, 15, 126, 1}] : k \in 0..MaxPayload}

InitRT == InitProg /\ hist \in {[HistInit EXCEPT !.P = p] : p \in Payloads} /\ InitI3705
          /\ NoJunk /\ InitNM /\ InitLock /\ NmUnset

\* the bytes a send() on the line carried, as a sequence
SeqOf(b) == [k \in 1..b.len |-> IF (k - 1) \in DOMAIN b.data THEN b.data[k - 1] ELSE 0]

\* the payload holds the link trailer 47 0F 7E
HasTrailer(P) == \E i \in 1..(Len(P) - 2) : SubSeq(P, i, i + 2) = <<71, 15, 126>>

\* the peer contacts the station, sends the INFOFRAME carrying P, the
\* primary polls the I-frame out of the queue, and the frame then arrives
\* on a line read by the SDLC -> DLSw path
NextRT ==
  \/ PeerAccept /\ UNCHANGED <<hist, i3705Vars, nmVars, lockVars>>
  \/ LineConnect /\ UNCHANGED <<hist, i3705Vars, nmVars, lockVars>>
  \/ hist.stage = 0 /\ RecvDLSw(<<Ctl(CONTACTED, 0, 1, <<>>)>>) /\ UNCHANGED <<hist, i3705Vars, nmVars, lockVars>>
  \/ /\ hist.stage = 0 /\ state = CONNECTED
     /\ RecvDLSw(<<Info(INFOFRAME, 0, hist.P)>>)
     /\ UNCHANGED <<i3705Vars, nmVars, lockVars>>
     /\ hist' = [hist EXCEPT !.stage = 1]
  \/ /\ hist.stage = 1
     /\ \E ub \in UBFor : ReadLine(RRPoll, ub)
     /\ UNCHANGED <<i3705Vars, nmVars, lockVars>>
     /\ hist' = [hist EXCEPT !.stage = 2, !.frame = SeqOf(line_out'[1])]
  \/ /\ hist.stage = 2
     /\ \E ub \in UBFor : ReadLine(hist.frame, ub)
     /\ UNCHANGED <<i3705Vars, nmVars, lockVars>>
     /\ hist' = [hist EXCEPT !.stage = 3]

SpecRT == InitRT /\ [][NextRT]_vars

\* the frame built from the INFOFRAME is 7E C1 ctrl P 47 0F 7E
FrameBuilt ==
  hist.stage >= 2 =>
     /\ Len(hist.frame) = Len(hist.P) + 6
     /\ SubSeq(hist.frame, 1, 2) = <<126, STATION>>
     /\ SubSeq(hist.frame, 4, Len(hist.P) + 3) = hist.P
     /\ SubSeq(hist.frame, Len(hist.P) + 4, Len(hist.P) + 6) = SDLC_FCSLT

\* the INFOFRAME emitted for the frame read back carries exactly P
CarriedBack ==
  /\ Len(dlsw_out) = 1 /\ dlsw_out[1].mtyp = INFOFRAME
  /\ dlsw_out[1].body = hist.P /\ dlsw_out[1].mlen = Len(hist.P)

\* C8 as stated: for every payload P, also one that contains 47 0F 7E, the
\* INFOFRAME carrying P becomes the frame 7E C1 ctrl P 47 0F 7E, and the
\* frame read back from a line yields an INFOFRAME carrying exactly P with
\* message length |P|.
C8_RoundTripAny == FrameBuilt /\ (hist.stage = 3 => CarriedBack)

\* the round trip does hold for every payload P that does not contain the
\* byte sequence 47 0F 7E
RoundTripWithoutTrailer == FrameBuilt /\ (hist.stage = 3 /\ ~HasTrailer(hist.P) => CarriedBack)

\* a payload with a flag and a partial trailer has come back whole
RoundTripDone ==
  /\ hist.stage = 3 /\ hist.P = <<126, 71, 15, 1>>
  /\ Len(dlsw_out) = 1 /\ dlsw_out[1].body = <<126, 71, 15, 1>> /\ dlsw_out[1].mlen = 4

(***************************************************************************)
(* Part II specifications: the scanner, the LIB worker and the CPU.  The   *)
(* router of Part I is another process and does not move.                  *)
(***************************************************************************)
dlswVars == <<flowVars, circVars, sdlcVars, connVars, outVars, rs232_stat, halted>>

InitScan == InitProg /\ hist = HistInit /\ InitI3705 /\ InitNM /\ InitLock /\ NmUnset

\* ... with the descriptors at 0, as a fresh allocation has them
InitZero == InitScan /\ NoJunk

\* a step of the scanner, the LIB worker or the remote DCE
Idle == UNCHANGED <<dlswVars, nmVars, lockVars, hist>>

\* observer: the NCP has made the next write of its program
ObsNcp == hist' = [hist EXCEPT !.ncp = @ + 1] /\ UNCHANGED <<dlswVars, nmVars, lockVars>>

\* connection requests made so far
RECURSIVE Waiting(_)
Waiting(S) == IF S = {} THEN 0
              ELSE LET l == CHOOSE x \in S : TRUE IN pend[l] + Waiting(S \ {l})

Calls == nfd + Waiting(Lines)

(***************************************************************************)
(* SpecCts: the remote DCE opens its two connections to line 0; the NCP    *)
(* sets the line code, enables the line (PCF 1) and starts a transmission  *)
(* (PCF 8); the remote DCE answers RTS with CTS.  hist.ncp is how far the  *)
(* NCP is in this program.                                                 *)
(***************************************************************************)
MaxConn == 2
TxLcds == {9, 12}
TxSigs == {CTS}

NextCts ==
  \/ ScanLine /\ Idle
  \/ ScanRmwRead /\ Idle
  \/ ScanRmwWrite /\ Idle
  \/ ScanPost /\ Idle
  \/ ScanCommit /\ Idle
  \/ LibAccept /\ Idle
  \/ LibReadSig /\ Idle
  \/ LibReadSigStore /\ Idle
  \/ Calls + 2 <= MaxConn /\ PeerCalls(0, 2) /\ Idle
  \/ \E sig \in TxSigs :
        /\ Has(RS232r[0], RTS) /\ Len(sig_in[0]) < 2
        /\ PeerSignal(0, sig) /\ Idle
  \/ \E c \in TxLcds : hist.ncp = 0 /\ NcpSetLcd(0, c) /\ ObsNcp
  \/ hist.ncp = 1 /\ LIBline[0].s327x_fd > 0 /\ NcpSetPcf(0, 1) /\ ObsNcp
  \/ hist.ncp = 2 /\ NcpSetPcf(0, 8) /\ ObsNcp
  \/ CpuEnterL2 /\ Idle
  \/ CpuExitL2 /\ Idle

SpecCts == InitZero /\ [][NextCts]_vars

\* the scan step of the line at PCF pcf: lock, adoption, dispatch
Scans(pcf) == cs2_pc = "scan" /\ cs2_pc' # "scan" /\ icw_pcf'[line] = pcf

\* C11: a scan of a line at PCF 8 that reads local CTS low leaves the next
\* PCF at 8, the transmit buffer and the frame-open flag as they are, sends
\* nothing and has no other update of the signals to make than raising
\* RTS; so the next PCF goes from 8 to 9 only in a scan that reads CTS high
C11_CtsGate ==
  [][Scans(8) /\ ~Has(RS232[line], CTS) =>
       /\ icw_pcf_nxt'[line] = 8
       /\ LIBline'[line] = LIBline[line]
       /\ lib_out' = <<>>
       /\ cs2_ops' \in {<<>>, <<[set |-> RTS, clr |-> 0]>>}]_vars

\* with CTS high the transmission goes on to PCF 9
C11_Goes9 == icw_pcf[0] = 9 /\ Has(RS232[0], CTS)

\* C11 witness: a line with a line code set is at PCF 8 with CTS low, and
\* the scanner is about to raise RTS and has left the next PCF at 8
C11_Witness ==
  /\ cs2_pc = "rmw_rd" /\ icw_pcf[line] = 8 /\ icw_lcd[line] \in TxLcds
  /\ cs2_ops = <<[set |-> RTS, clr |-> 0]>>
  /\ ~Has(RS232[line], CTS) /\ icw_pcf_nxt[line] = 8

(***************************************************************************)
(* SpecGet: the NCP enables line 0 (PCF 1) and monitors it (PCF 2) while   *)
(* the CPU reads the ICW of the line through Get_ICW                       *)
(***************************************************************************)
MaxGet == 2
GetPcfs == {1, 2}

\* observer: a cycle of the scanner on a line is complete; done holds the
\* ICW fields of the line as the cycle leaves them
ObsDone ==
  /\ hist' = [hist EXCEPT !.done[line] =
                [scf |-> icw_scf'[line], pdf |-> icw_pdf'[line],
                 lcd |-> icw_lcd'[line], pcf |-> icw_pcf'[line],
                 sdf |-> icw_sdf'[line]]]
  /\ UNCHANGED <<dlswVars, nmVars, lockVars>>

\* observer: the scan step of a cycle has set the next PCF of the line
ObsNext ==
  hist' = [hist EXCEPT !.snx[line] = icw_pcf_nxt'[line]] /\ UNCHANGED <<dlswVars, nmVars, lockVars>>

\* observer: the CPU loads the ICW of line l into its input registers; at
\* is the ICW as the last complete cycle left it, end the ICW as the cycle
\* under way leaves it once the next PCF it has set is copied into the PCF
ObsGet(l) ==
  /\ hist' = [hist EXCEPT !.got = TRUE, !.at = hist.done[l],
                          !.end = [scf |-> icw_scf[l], pdf |-> icw_pdf[l],
                                   lcd |-> icw_lcd[l], pcf |-> hist.snx[l],
                                   sdf |-> icw_sdf[l]]]
  /\ UNCHANGED <<dlswVars, nmVars, lockVars>>

\* the input registers 0x44 and 0x45 hold the ICW fields f
Loaded(f) ==
  /\ Eregs_Inp.r44 = f.scf * 256 + f.pdf
  /\ Eregs_Inp.r45 = f.lcd * 4096 + f.pcf * 256 + f.sdf

NextGet ==
  \/ ScanLine /\ ObsNext
  \/ ScanPost /\ Idle
  \/ ScanCommit /\ ObsDone
  \/ \E v \in GetPcfs : hist.ncp < MaxGet /\ NcpSetPcf(0, v) /\ ObsNcp
  \/ Get_ICW(0) /\ ObsGet(0)
  \/ CpuEnterL2 /\ Idle
  \/ CpuExitL2 /\ Idle

SpecGet == InitZero /\ [][NextGet]_vars

\* C12: the SCF, PDF, LCD, PCF and SDF that Get_ICW has put into the input
\* registers 0x44 and 0x45 are those of one complete cycle of the scanner
\* on the line: the last one completed when Get_ICW was called, or the one
\* under way as it will complete
C12_SnapshotOfCompletedStep == hist.got => Loaded(hist.at) \/ Loaded(hist.end)

(***************************************************************************)
(* SpecIcw: the NCP writes next PCFs to lines without a connection while   *)
(* the scanner runs and the CPU services the level 2 requests              *)
(***************************************************************************)
MaxNcp == 3
IcwPcfs == [l \in Lines |-> IF l = 0 THEN {0, 1, 12, 13} ELSE {1}]
IcwLcds == {12}

\* observer: the NCP has written v as next PCF of line l
ObsWrite(l, v) ==
  hist' = [hist EXCEPT !.ncp = @ + 1, !.w[l] = v] /\ UNCHANGED <<dlswVars, nmVars, lockVars>>

\* observer: the scan step adopts what was written before it
ObsScan ==
  /\ hist' = [hist EXCEPT !.w[line] = -1, !.z[line] = FALSE]
  /\ UNCHANGED <<dlswVars, nmVars, lockVars>>

\* observer: the end of the cycle adopts what was written since the scan step
ObsCommit ==
  /\ hist' = [hist EXCEPT !.w[line] = -1, !.z[line] = (hist.w[line] = 0)]
  /\ UNCHANGED <<dlswVars, nmVars, lockVars>>

NextIcw ==
  \/ ScanLine /\ ObsScan
  \/ ScanRmwRead /\ Idle
  \/ ScanRmwWrite /\ Idle
  \/ ScanPost /\ Idle
  \/ ScanCommit /\ ObsCommit
  \/ \E l \in Lines : \E v \in IcwPcfs[l] :
        hist.ncp < MaxNcp /\ NcpSetPcf(l, v) /\ ObsWrite(l, v)
  \/ \E c \in IcwLcds : icw_lcd[0] = 0 /\ NcpSetLcd(0, c) /\ Idle
  \/ CpuEnterL2 /\ Idle
  \/ CpuExitL2 /\ Idle

SpecIcw == InitZero /\ [][NextIcw]_vars

\* C13: svc_req_L2 goes from OFF to ON only in the post-processing of the
\* line that requested, with abar_int set to that line + 0x20; the
\* post-processing of a line that requested never passes while svc_req_L2
\* is ON; and no step taken with svc_req_L2 ON changes abar_int
C13_SingleRaise ==
  [][/\ (svc_req_L2 = OFF /\ svc_req_L2' = ON) =>
          cs2_pc = "post" /\ CS2_req_L2_int = ON /\ abar_int' = line + 32
     /\ (cs2_pc = "post" /\ cs2_pc' # "post" /\ CS2_req_L2_int = ON) =>
          svc_req_L2 = OFF /\ svc_req_L2' = ON
     /\ svc_req_L2 = ON => abar_int' = abar_int]_vars

\* C13 witness: the request of line 1 is outstanding (abar_int = 0x21) while
\* the scanner, at line 0, has a request to raise and waits
C13_Witness ==
  /\ svc_req_L2 = ON /\ abar_int = 33
  /\ cs2_pc = "post" /\ line = 0 /\ CS2_req_L2_int = ON

\* the PCFs the scan step of which is to do nothing while a level 2 request
\* is outstanding
C14_Pcfs == {6, 7, 8, 9, 10, 13}

\* a scan step that leaves the line alone: no byte taken from the receive
\* side, none put into the transmit buffer, nothing sent, SCF, PDF, the PDF
\* state and the next PCF as they were, no level 2 request made
LeftAlone ==
  /\ LIBline'[line] = LIBline[line] /\ dat_in'[line] = dat_in[line]
  /\ lib_out' = <<>>
  /\ icw_scf'[line] = icw_scf[line] /\ icw_pdf'[line] = icw_pdf[line]
  /\ icw_pdf_reg'[line] = icw_pdf_reg[line]
  /\ icw_pcf_nxt'[line] = icw_pcf_nxt[line]
  /\ CS2_req_L2_int' = CS2_req_L2_int

\* C14: a scan step taken with svc_req_L2 ON on a line whose PCF is 6, 7,
\* 8, 9, A or D leaves the line alone
C14_SuspendedWhileL2 ==
  [][(\E pcf \in C14_Pcfs : Scans(pcf)) /\ svc_req_L2 = ON => LeftAlone]_vars

\* C15: a next PCF written by the NCP is the PCF after the adoption that
\* follows, at the top of the cycle or at its end, with the PCF it replaces
\* as previous PCF; and the first scan of PCF 0 after a written 0 was
\* adopted finds the line state RESET
C15_WrittenPcfAdopted ==
  [][/\ (cs2_pc = "scan" /\ cs2_pc' # "scan" /\ hist.w[line] # -1) =>
          /\ icw_pcf'[line] = hist.w[line]
          /\ icw_pcf[line] # hist.w[line] => icw_pcf_prev'[line] = icw_pcf[line]
     /\ (cs2_pc = "commit" /\ cs2_pc' # "commit" /\ hist.w[line] # -1) =>
          /\ icw_pcf'[line] = hist.w[line]
          /\ icw_pcf_prev'[line] = icw_pcf[line]
     /\ (Scans(0) /\ (hist.w[line] = 0 \/ hist.z[line])) =>
          icw_lne_stat'[line] = "RESET"]_vars

(***************************************************************************)
(* SpecTx: the NCP sets the line code of line 0, the remote DCE opens its  *)
(* two connections; the NCP enables the line (PCF 1), starts sending       *)
(* (PCF 8), hands over the bytes and ends with PCF C or D; the remote DCE  *)
(* answers RTS with CTS.  hist.ncp is how far the NCP is in this program.  *)
(***************************************************************************)
MaxTbuf == 1
TxEnd == {12, 13}
TxBytes == {193}

NextTx ==
  \/ ScanLine /\ Idle
  \/ ScanRmwRead /\ Idle
  \/ ScanRmwWrite /\ Idle
  \/ ScanPost /\ Idle
  \/ ScanCommit /\ Idle
  \/ LibAccept /\ Idle
  \/ LibReadSig /\ Idle
  \/ LibReadSigStore /\ Idle
  \/ hist.ncp = 1 /\ Calls + 2 <= MaxConn /\ PeerCalls(0, 2) /\ Idle
  \/ \E sig \in TxSigs :
        /\ Has(RS232r[0], RTS) /\ Len(sig_in[0]) < 2
        /\ PeerSignal(0, sig) /\ Idle
  \/ \E c \in TxLcds : hist.ncp = 0 /\ NcpSetLcd(0, c) /\ ObsNcp
  \/ hist.ncp = 1 /\ LIBline[0].s327x_fd > 0 /\ NcpSetPcf(0, 1) /\ ObsNcp
  \/ hist.ncp = 2 /\ NcpSetPcf(0, 8) /\ ObsNcp
  \/ \E v \in TxEnd : hist.ncp = 3 /\ NcpSetPcf(0, v) /\ ObsNcp
  \/ \E b \in TxBytes :
        /\ hist.ncp = 3 /\ Len(LIBline[0].LIB_tbuf) < MaxTbuf
        /\ icw_pdf_reg[0] = "EMPTY"
        /\ NcpFillPdf(0, b) /\ Idle
  \/ CpuEnterL2 /\ Idle
  \/ CpuExitL2 /\ Idle

SpecTx == InitZero /\ [][NextTx]_vars

\* the scan step in which the line enters PCF pcf
Enters(pcf) == Scans(pcf) /\ icw_pcf_prev'[line] # pcf

\* the scan step sends the frame in the transmit buffer and closes it
FrameSent ==
  /\ lib_out' = <<[fd |-> LIBline[line].d327x_fd, data |-> LIBline[line].LIB_tbuf]>>
  /\ LIBline'[line].LIB_tbuf = <<>>
  /\ LIBline'[line].LIBsync = 0

\* the line has a frame open (by PCF 8) and a line code of SDLC or BSC
FrameOpen == LIBline[line].LIBsync = 1 /\ icw_lcd[line] \in TxLcds

\* C16: the scan step in which a line with an open transmit frame enters
\* PCF C or D sends the buffered frame, once, leaves the transmit buffer
\* empty and the frame closed; no other step sends a frame
C16_FrameSentOnce ==
  [][/\ (Enters(12) \/ Enters(13)) /\ FrameOpen => FrameSent
     /\ lib_out' # <<>> => (Enters(12) \/ Enters(13)) /\ FrameOpen]_vars

\* ... which holds for PCF C
C16_SentAtC ==
  [][/\ Enters(12) /\ FrameOpen => FrameSent
     /\ lib_out' # <<>> => Enters(12) /\ FrameOpen]_vars

\* a frame with a byte in it has been sent at PCF C
C16_SentAtCDone == lib_out # <<>> /\ lib_out[1].data # <<>> /\ icw_pcf[line] = 12

\* lines at PCF 6, 7, 8, 9 and A are left alone while svc_req_L2 is ON
C14_OthersSuspended ==
  [][(\E pcf \in C14_Pcfs \ {13} : Scans(pcf)) /\ svc_req_L2 = ON => LeftAlone]_vars

\* a line at PCF 8 or 9 has been scanned with svc_req_L2 ON
C14_OthersScanned ==
  cs2_pc = "post" /\ icw_pcf[line] \in {8, 9} /\ svc_req_L2 = ON /\ CS2_req_L2_int = OFF

(***************************************************************************)
(* SpecLib: the remote DCE of line 0 connects, signals and hangs up while  *)
(* the NCP sets the line code, enables the line (PCF 1) and monitors it    *)
(* (PCF 2) or starts to transmit (PCF 8); the descriptors start as the     *)
(* allocation left them                                                    *)
(***************************************************************************)
MaxCalls == 2
LibLcds == {9}
LibPcfs == {2, 8}
LibSigs == {CTS}

\* descriptor fd is a connection that was accepted and is lost
Lost(fd) == fd \in 1..nfd /\ fd \notin live

\* observer: a pass of the LIB worker over a line begins
ObsPass ==
  /\ hist' = [hist EXCEPT !.lost = Lost(LIBline[lib_k].d327x_fd) \/
                                   Lost(LIBline[lib_k].s327x_fd)]
  /\ UNCHANGED <<dlswVars, nmVars, lockVars>>

NextLib ==
  \/ ScanLine /\ Idle
  \/ ScanRmwRead /\ Idle
  \/ ScanRmwWrite /\ Idle
  \/ ScanPost /\ Idle
  \/ ScanCommit /\ Idle
  \/ LibAccept /\ ObsPass
  \/ LibReadSig /\ Idle
  \/ LibReadSigStore /\ Idle
  \/ \E n \in 1..2 : Calls + n <= MaxCalls /\ PeerCalls(0, n) /\ Idle
  \/ \E fd \in live : PeerHangsUp(fd) /\ Idle
  \/ \E sig \in LibSigs :
        /\ Has(RS232r[0], RTS) /\ Len(sig_in[0]) < 2
        /\ PeerSignal(0, sig) /\ Idle
  \/ \E c \in LibLcds : hist.ncp = 0 /\ NcpSetLcd(0, c) /\ ObsNcp
  \/ hist.ncp = 1 /\ NcpSetPcf(0, 1) /\ ObsNcp
  \/ \E v \in LibPcfs : hist.ncp = 2 /\ NcpSetPcf(0, v) /\ ObsNcp
  \/ CpuEnterL2 /\ Idle
  \/ CpuExitL2 /\ Idle

SpecLib == InitScan /\ [][NextLib]_vars

\* C17: a line without a data connection has all local signals at 0
C17_NoDataNoSignals ==
  \A l \in Lines : LIBline[l].d327x_fd < 1 => RS232[l] = 0

\* the data connection of line 0 was lost and closed by ReadLIB, the signal
\* connection is still there, and ReadSig has raised DSR again for DTR
C17_DsrAfterDataLoss ==
  /\ LIBline[0].d327x_fd = 0 /\ IsSocketConnected(LIBline[0].s327x_fd)
  /\ Has(RS232[0], DSR) /\ Has(RS232[0], DTR) /\ ~Has(RS232[0], DCD)

\* the pass of the LIB worker over line lib_k ends with this step
PassEnds == lib_pc # "accept" /\ lib_pc' = "accept"

\* C18: the pass of the LIB worker over a line that had lost its data or
\* its signal connection when the pass began ends with both descriptors
\* closed and the local signals at 0, so that the next connection is taken
\* as data and the one after it as signal
C18_LossClosesBoth ==
  [][PassEnds /\ hist.lost =>
       /\ LIBline'[lib_k].d327x_fd = 0 /\ LIBline'[lib_k].s327x_fd = 0
       /\ RS232'[lib_k] = 0]_vars

\* a pass over line 0 has ended with the data connection lost, the signal
\* connection there and both descriptors still set
C18_DataLossLeftOpen ==
  /\ hist.lost /\ lib_pc = "accept" /\ lib_k = 1
  /\ Lost(LIBline[0].d327x_fd) /\ IsSocketConnected(LIBline[0].s327x_fd)

\* C19: while the signal connection of a line exists, DCD and RI are set
\* in its local signals
C19_DcdRiWhileSignal ==
  \A l \in Lines :
    IsSocketConnected(LIBline[l].s327x_fd) => Has(RS232[l], DCD) /\ Has(RS232[l], RI)

\* C20: no update of the local signals is lost: when the scanner or ReadSig
\* stores the value it has computed from RS232[] as it read it, RS232[] is
\* still as read
C20_NoLostUpdate ==
  [][/\ (cs2_pc = "rmw_wr" /\ cs2_pc' # "rmw_wr") => RS232[line] = cs2_tmp
     /\ (lib_pc = "rs_st" /\ lib_pc' # "rs_st" /\ RS232'[lib_k] # RS232[lib_k]) =>
          RS232[lib_k] = lib_tmp]_vars



(***************************************************************************)
(* PCF 2, monitor DSR (checked under SpecLib)                              *)
(***************************************************************************)
\* DCD and DSR are both high on the line the scanner is at
DcdDsr == Has(RS232[line], DCD) /\ Has(RS232[line], DSR)

\* C26: in PCF 2 the scanner goes to PCF 4 and requests a level 2 interrupt
\* once DCD and DSR are high; in a scan in which DCD or DSR is low the next
\* PCF stays 2 and no level 2 interrupt is requested.
C26_MonitorDsr ==
  [][Scans(2) =>
       IF DcdDsr THEN icw_pcf_nxt'[line] = 4 /\ CS2_req_L2_int' = ON
       ELSE icw_pcf_nxt'[line] = 2 /\ CS2_req_L2_int' = OFF]_vars

\* C26, the parts that hold: with DCD and DSR high the line goes to PCF 4
\* with a level 2 request, with DCD low it stays in PCF 2 without one
C26_AdvanceOrWaitForDcd ==
  [][Scans(2) =>
       /\ DcdDsr => icw_pcf_nxt'[line] = 4 /\ CS2_req_L2_int' = ON
       /\ ~Has(RS232[line], DCD) => icw_pcf_nxt'[line] = 2 /\ CS2_req_L2_int' = OFF]_vars

\* a scan in PCF 2 with DCD high and DSR low has left the line in PCF 2 and
\* requested a level 2 interrupt
C26_RequestWhileWaiting ==
  /\ cs2_pc = "post" /\ icw_pcf[line] = 2 /\ icw_pcf_nxt[line] = 2
  /\ Has(RS232[line], DCD) /\ ~Has(RS232[line], DSR) /\ CS2_req_L2_int = ON


(***************************************************************************)
(* SpecRcv: the remote DCE opens its two connections to line 0; the NCP    *)
(* sets the line code to SDLC, enables the line (PCF 1) and monitors it    *)
(* (PCF 2); the scanner goes on to PCF 4 and receives the bytes the remote *)
(* DCE sends (PCF 5, 6 and 7)                                              *)
(***************************************************************************)
MaxRcv == 5
RcvBytes == {126, 71, 15}

\* the bytes of line l that are received and not yet read by the scanner
Unread(l) == LIBline[l].LIB_rbuf \o dat_in[l]

\* the scan step takes a byte from those received
ReadsByte == Len(Unread(line)') < Len(Unread(line))

\* the last two bytes of s, zeros where s is shorter
LastTwo(s) == <<IF Len(s) > 1 THEN s[Len(s) - 1] ELSE 0,
                IF Len(s) > 0 THEN s[Len(s)] ELSE 0>>

\* the byte taken is a flag that follows 47 0F
ClosingFlag(before) == Head(Unread(line)) = 126 /\ before = <<71, 15>>

\* observer: the bytes of the frame being received that the scanner has
\* read since the opening flags, and those it has given to the CPU; a flag
\* that follows 47 0F closes the frame
ObsRcv ==
  LET b   == Head(Unread(line))
      pcf == icw_pcf'[line]
      rd1 == IF ~ReadsByte \/ pcf \notin {6, 7} THEN hist.rd
             ELSE IF pcf = 6 THEN (IF b = 126 THEN <<>> ELSE <<b>>)
             ELSE IF ClosingFlag(LastTwo(hist.rd)) THEN <<>>
             ELSE Append(hist.rd, b)
      given == /\ ReadsByte /\ pcf \in {6, 7} /\ CS2_req_L2_int' = ON
               /\ icw_pcf_nxt'[line] = 7 /\ icw_pdf_reg'[line] = "FILLED"
      dlv1 == IF rd1 = <<>> THEN <<>>
              ELSE IF given THEN Append(IF pcf = 6 THEN <<>> ELSE hist.dlv, icw_pdf'[line])
              ELSE hist.dlv
  IN  /\ hist' = [hist EXCEPT !.rd = rd1, !.dlv = dlv1]
      /\ UNCHANGED <<dlswVars, nmVars, lockVars>>

\* observer: the remote DCE has sent one more byte
ObsSent == hist' = [hist EXCEPT !.m = @ + 1] /\ UNCHANGED <<dlswVars, nmVars, lockVars>>

\* no step of this program has the scanner update RS232[line] without the
\* lock
NextRcv ==
  \/ ScanLine /\ ObsRcv
  \/ ScanPost /\ Idle
  \/ ScanCommit /\ Idle
  \/ LibAccept /\ Idle
  \/ LibReadSig /\ Idle
  \/ LibReadSigStore /\ Idle
  \/ hist.ncp = 1 /\ Calls + 2 <= MaxConn /\ PeerCalls(0, 2) /\ Idle
  \/ hist.ncp = 0 /\ NcpSetLcd(0, 9) /\ ObsNcp
  \/ hist.ncp = 1 /\ LIBline[0].s327x_fd > 0 /\ NcpSetPcf(0, 1) /\ ObsNcp
  \/ hist.ncp = 2 /\ icw_pcf[0] = 0 /\ Has(RS232[0], DSR) /\ NcpSetPcf(0, 2) /\ ObsNcp
  \/ \E b \in RcvBytes :
        /\ hist.ncp = 3 /\ hist.m < MaxRcv /\ Len(dat_in[0]) < 2
        /\ PeerData(0, <<b>>) /\ ObsSent
  \/ CpuEnterL2 /\ Idle
  \/ CpuExitL2 /\ Idle

SpecRcv == InitZero /\ [][NextRcv]_vars

\* the scan step of an SDLC line at PCF 7 that takes a byte
Reads7 == Scans(7) /\ icw_lcd[line] \in {8, 9} /\ ReadsByte

\* the scan step signals the end of the frame and leaves the PDF alone
EndOfFrame ==
  /\ icw_lne_stat'[line] = "TX" /\ Has(icw_scf'[line], 4)
  /\ icw_pcf_nxt'[line] = 6 /\ CS2_req_L2_int' = ON
  /\ icw_pdf'[line] = icw_pdf[line]

\* the scan step gives the byte it has taken to the CPU
Delivered ==
  /\ icw_pdf'[line] = Head(Unread(line)) /\ icw_pdf_reg'[line] = "FILLED"
  /\ icw_pcf_nxt'[line] = 7 /\ CS2_req_L2_int' = ON

\* C27: in PCF 7 on an SDLC line the end of the frame is signalled exactly
\* when the byte read is 7E and the two bytes of the frame read before it
\* were 47 0F (line state TX, flag detect bit, next PCF 6, level 2 request,
\* the 7E not delivered); every other byte is delivered in the PDF with
\* pdf_reg FILLED, next PCF 7 and a level 2 request, so that the bytes given
\* to the CPU are the bytes of the frame in order
C27_EndOfFrame ==
  [][Reads7 =>
       /\ IF ClosingFlag(LastTwo(hist.rd)) THEN EndOfFrame ELSE Delivered
       /\ hist.dlv' = hist.rd']_vars

\* C27 with the two bytes taken as the last two that were read in PCF 7
\* since the line came to PCF 7 or the last end of frame: the window
\* FCS_rcvd
C27_EndOfFrameByWindow ==
  [][Reads7 =>
       IF ClosingFlag(FCS_rcvd[line]) THEN EndOfFrame ELSE Delivered]_vars

\* the flag that closes a frame of the two bytes 47 0F has been given to the
\* CPU as a byte of the frame
C27_FlagDelivered ==
  /\ cs2_pc = "post" /\ icw_pcf[line] = 7 /\ icw_pdf[line] = 126
  /\ icw_pcf_nxt[line] = 7 /\ FCS_rcvd[line] = <<15, 126>>
  /\ hist.rd = <<>>

\* an end of frame has been signalled
C27_FrameEnded ==
  cs2_pc = "post" /\ icw_pcf[line] = 7 /\ icw_pcf_nxt[line] = 6 /\ icw_lne_stat[line] = "TX"


(***************************************************************************)
(* SpecSub: the program of SpecTx with bytes that differ from each other   *)
(* and a record of the bytes the scanner submits to proc_LIBtdata          *)
(***************************************************************************)
MaxSub == 2

\* the byte the NCP hands over after n others
SubByte(n) == 193 + n

\* the characters of the submissions s
RECURSIVE Chars(_)
Chars(s) == IF s = <<>> THEN <<>> ELSE <<Head(s).ch>> \o Chars(Tail(s))

\* a submission made in a PCF other than 8
After8(e) == e.pcf # 8

\* the scan step of line record W calls proc_LIBtdata with a new character
\* of the NCP: lines 471-484 (BSC, PCF 8), 511-519 and 530-541 (PCF 9) and
\* 559-567 (BSC, PCF A)
Submits(W) ==
  /\ ~Suspended(W.pcf)
  /\ \/ W.pcf = 8 /\ ~CtsLow(W.rs) /\ W.lcd = 12 /\ ~Has(W.scf, 64)
     \/ W.pcf \in {9, 10} /\ W.lcd = 12 /\ ~Has(W.scf, 64)
     \/ W.pcf = 9 /\ W.lcd = 9 /\ W.reg = "FILLED"

\* the scan step of line record W opens a frame: PCF 8 with CTS high and
\* no frame open
Opens(W) ==
  /\ ~Suspended(W.pcf) /\ W.pcf = 8 /\ ~CtsLow(W.rs) /\ W.lcd \in {9, 12}
  /\ W.lib.LIBsync # 1

\* observer: the bytes submitted since the frame was opened, the byte
\* submitted by the step that opens it being the first
ObsSubmit ==
  LET W == Adopt(LineRec(line))
      s0 == IF Opens(W) \/ lib_out' # <<>> THEN <<>> ELSE hist.sub
      s1 == IF Submits(W) /\ (Opens(W) \/ W.lib.LIBsync = 1)
            THEN Append(s0, [pcf |-> W.pcf, ch |-> W.pdf]) ELSE s0
  IN  hist' = [hist EXCEPT !.sub = s1] /\ UNCHANGED <<dlswVars, nmVars, lockVars>>

\* observer: the NCP has handed over one more byte
ObsFill == hist' = [hist EXCEPT !.m = @ + 1] /\ UNCHANGED <<dlswVars, nmVars, lockVars>>

NextSub ==
  \/ ScanLine /\ ObsSubmit
  \/ ScanRmwRead /\ Idle
  \/ ScanRmwWrite /\ Idle
  \/ ScanPost /\ Idle
  \/ ScanCommit /\ Idle
  \/ LibAccept /\ Idle
  \/ LibReadSig /\ Idle
  \/ LibReadSigStore /\ Idle
  \/ hist.ncp = 1 /\ Calls + 2 <= MaxConn /\ PeerCalls(0, 2) /\ Idle
  \/ \E sig \in TxSigs :
        /\ Has(RS232r[0], RTS) /\ Len(sig_in[0]) < 2
        /\ PeerSignal(0, sig) /\ Idle
  \/ \E c \in TxLcds : hist.ncp = 0 /\ NcpSetLcd(0, c) /\ ObsNcp
  \/ hist.ncp = 1 /\ LIBline[0].s327x_fd > 0 /\ NcpSetPcf(0, 1) /\ ObsNcp
  \/ hist.ncp = 2 /\ icw_pcf[0] = 0 /\ NcpSetPcf(0, 8) /\ ObsNcp
  \/ hist.ncp = 3 /\ NcpSetPcf(0, 12) /\ ObsNcp
  \/ /\ hist.ncp \in {2, 3} /\ hist.m < MaxSub /\ icw_pcf[0] \in {0, 9}
     /\ icw_pdf_reg[0] = "EMPTY"
     /\ NcpFillPdf(0, SubByte(hist.m)) /\ ObsFill
  \/ CpuEnterL2 /\ Idle
  \/ CpuExitL2 /\ Idle

SpecSub == InitZero /\ [][NextSub]_vars

\* C28: the frame sent to the data channel at the turnaround is the bytes
\* the scanner has submitted to proc_LIBtdata in PCF 8, 9 and A since the
\* frame was opened, in the order submitted, none lost and none twice; on
\* a BSC line the byte written in PCF 8 is the first byte of the frame
C28_FrameIsSubmitted ==
  [][lib_out' # <<>> => lib_out'[1].data = Chars(hist.sub)]_vars

\* the frame sent is the bytes submitted after the step that opened the
\* frame, in the order submitted
C28_FrameIsSubmittedAfterOpening ==
  [][lib_out' # <<>> =>
       lib_out'[1].data = Chars(SelectSeq(hist.sub, After8))]_vars

\* a BSC frame has been sent that holds the second byte of the NCP alone:
\* the first byte, submitted in PCF 8, is not in it
C28_FirstByteMissing ==
  /\ lib_out # <<>> /\ icw_lcd[line] = 12 /\ icw_pcf[line] = 12
  /\ lib_out[1].data = <<SubByte(1)>>

\* a frame of two different bytes has been sent
C28_TwoBytesSent ==
  /\ lib_out # <<>> /\ Len(lib_out[1].data) = 2
  /\ lib_out[1].data[1] # lib_out[1].data[2]


(***************************************************************************)
(* SpecSig: the remote DCE opens its two connections to line 0, sends      *)
(* signal bytes and a flag on the data connection; the NCP sets the line   *)
(* code, enables the line (PCF 1) and goes on to monitor it (PCF 2), to    *)
(* transmit (PCF 8) or to disable it (PCF F)                               *)
(***************************************************************************)
MaxSigNcp == 4
MaxSigIn == 4
SigPcfs == {2, 8, 15}
SigIn == {RTS}

\* observer: the remote DCE has sent one more byte on the data connection
ObsData == hist' = [hist EXCEPT !.k = @ + 1] /\ UNCHANGED <<dlswVars, nmVars, lockVars>>

NextSig ==
  \/ ScanLine /\ Idle
  \/ ScanRmwRead /\ Idle
  \/ ScanRmwWrite /\ Idle
  \/ ScanPost /\ Idle
  \/ ScanCommit /\ Idle
  \/ LibAccept /\ Idle
  \/ LibReadSig /\ Idle
  \/ LibReadSigStore /\ Idle
  \/ hist.ncp = 1 /\ Calls + 2 <= MaxConn /\ PeerCalls(0, 2) /\ Idle
  \/ \E sig \in SigIn :
        /\ hist.m < MaxSigIn /\ Len(sig_in[0]) < 2
        /\ PeerSignal(0, sig) /\ ObsSent
  \/ hist.k < 1 /\ PeerData(0, <<126>>) /\ ObsData
  \/ hist.ncp = 0 /\ NcpSetLcd(0, 9) /\ ObsNcp
  \/ hist.ncp = 1 /\ LIBline[0].s327x_fd > 0 /\ NcpSetPcf(0, 1) /\ ObsNcp
  \/ \E v \in SigPcfs :
        /\ hist.ncp > 1 /\ hist.ncp < MaxSigNcp /\ icw_pcf[0] = icw_pcf_nxt[0]
        /\ NcpSetPcf(0, v) /\ ObsNcp
  \/ CpuEnterL2 /\ Idle
  \/ CpuExitL2 /\ Idle

SpecSig == InitZero /\ [][NextSig]_vars

\* ReadSig completes its pass over line k, whose signal connection is
\* there, with RS232[k] as it was when the pass began
SigPass(k) ==
  /\ lib_pc = "rs_st" /\ lib_pc' = "accept" /\ lib_k = k
  /\ IsSocketConnected(LIBline[k].s327x_fd)
  /\ RS232[k] = lib_tmp

\* the pass sends the signal byte for the remote DCE as the pass leaves it
SigSent(k) == rs_out' = <<[fd |-> LIBline[k].s327x_fd, sig |-> RS232r'[k]]>>

\* C29: on a line with a signal connection a pass of ReadSig that finds
\* local DTR high leaves local DSR high; a pass that finds local DTR low
\* leaves local DSR and RTS low and CTS cleared in the byte for the remote
\* DCE, and sends that byte (looked for here where CTS had been set in it)
C29_DtrRules ==
  [][\A k \in Lines : SigPass(k) =>
       IF Has(RS232[k], DTR) THEN Has(RS232'[k], DSR)
       ELSE /\ ~Has(RS232'[k], DSR) /\ ~Has(RS232'[k], RTS)
            /\ ~Has(RS232r'[k], CTS)
            /\ Has(RS232r[k], CTS) => SigSent(k)]_vars

\* C29 as far as it holds: DSR follows DTR, RTS goes low with DTR, and CTS
\* is cleared in the byte for the remote DCE and the byte sent where local
\* RTS was high
C29_DtrRulesWithRts ==
  [][\A k \in Lines : SigPass(k) =>
       IF Has(RS232[k], DTR) THEN Has(RS232'[k], DSR)
       ELSE /\ ~Has(RS232'[k], DSR) /\ ~Has(RS232'[k], RTS)
            /\ Has(RS232[k], RTS) => ~Has(RS232r'[k], CTS) /\ SigSent(k)]_vars

\* ReadSig has passed over a line with DTR low and RTS low and has left CTS
\* set in the byte for the remote DCE
C29_CtsLeftSet ==
  /\ lib_pc = "accept" /\ lib_k = 1 /\ IsSocketConnected(LIBline[0].s327x_fd)
  /\ ~Has(RS232[0], DTR) /\ ~Has(RS232[0], RTS) /\ Has(RS232r[0], CTS)
  /\ rs_out = <<>>

\* ReadSig has passed over a line with DTR low and RTS high
C29_RtsDropped ==
  /\ lib_pc = "accept" /\ lib_k = 1 /\ rs_out # <<>>
  /\ ~Has(RS232[0], DTR) /\ ~Has(RS232[0], RTS) /\ ~Has(RS232[0], DSR)
  /\ ~Has(rs_out[1].sig, CTS) /\ Has(rs_out[1].sig, RTS)

\* the signal byte of the remote DCE that the pass over line k takes
SigTaken(k) == LET rd == SigRead(sig_in[k]) IN rd[Len(rd)]

\* the pass over line k takes a signal byte with RTS set
RtsTaken(k) ==
  /\ lib_pc = "rs_st" /\ lib_pc' = "accept" /\ lib_k = k
  /\ IsSocketConnected(LIBline[k].s327x_fd)
  /\ SigRead(sig_in[k]) # <<>> /\ Has(SigTaken(k), RTS)

\* local DTR is high, when the pass began or now, and the receive buffer of
\* line k is empty
MayReceive(k) ==
  /\ Has(lib_tmp, DTR) \/ Has(RS232[k], DTR)
  /\ LIBline[k].LIB_rbuf = <<>>

\* C30: CTS is set in the byte for the remote DCE only by a pass of ReadSig
\* that takes a signal byte with RTS set while local DTR is high and the
\* receive buffer of the line is empty; a pass that takes a signal byte with
\* RTS set while DTR is low or the receive buffer holds bytes sends no byte
\* with CTS set
C30_CtsForRts ==
  [][\A k \in Lines :
       /\ Has(RS232r'[k], CTS) /\ ~Has(RS232r[k], CTS) => RtsTaken(k) /\ MayReceive(k)
       /\ RtsTaken(k) /\ ~MayReceive(k) =>
            \A i \in 1..Len(rs_out') : ~Has(rs_out'[i].sig, CTS)]_vars

\* C30, the part about setting CTS
C30_CtsSetForRts ==
  [][\A k \in Lines :
       Has(RS232r'[k], CTS) /\ ~Has(RS232r[k], CTS) => RtsTaken(k) /\ MayReceive(k)]_vars

\* CTS has been set in the byte for the remote DCE and sent
C30_CtsSent ==
  lib_pc = "accept" /\ lib_k = 1 /\ rs_out # <<>> /\ Has(rs_out[1].sig, CTS)

\* a pass has taken RTS of the remote DCE while the receive buffer held a
\* byte and has sent a byte with CTS set
C30_CtsSentWhileUnread ==
  /\ lib_pc = "accept" /\ lib_k = 1 /\ rs_out # <<>> /\ Has(rs_out[1].sig, CTS)
  /\ LIBline[0].LIB_rbuf # <<>> /\ sig_in[0] = <<>>

(***************************************************************************)
(* SpecNm: the null modem between two 3705s that connect, send data and    *)
(* signal bytes in both directions, and go away.                           *)
(***************************************************************************)
MaxPend == 2
NmBytes == {126, 193}
NmSigs == {0, RTS}

InitNm == InitProg /\ hist = HistInit /\ InitI3705 /\ NoJunk /\ InitNM /\ InitLock

\* the router, the scanner and the LIB do not run
NmOnly == UNCHANGED <<dlswVars, i3705Vars, lockVars, hist>>

NextNm ==
  \/ NmConnect /\ NmOnly
  \/ NmSignals /\ NmOnly
  \/ \E i \in NmLines : NmLine(i) /\ NmOnly
  \/ \E i \in NmLines, b \in NmBytes :
        Len(line_in[i]) < MaxPend /\ NmPeerData(i, <<b>>) /\ NmOnly
  \/ \E i \in NmLines, sg \in NmSigs :
        Len(rs_in[i]) < MaxPend /\ NmPeerSignal(i, sg) /\ NmOnly
  \/ \E i \in NmLines : NmPeerDrops(i) /\ NmOnly

SpecNm == InitNm /\ [][NextNm]_vars

\* the step is the pass of the loop over the data connection of line i, and
\* it takes bytes off that connection
Reads(i) == NmLine(i) /\ NmConnected(line_fd[i]) /\ line_in[i] # <<>>

\* C22: the bytes the null modem takes off the data connection of a line are
\* sent, unchanged and in order, on the data connection of the other line,
\* in both directions; a byte that arrives while the other line is being
\* re-established is not lost.
C22_ForwardedVerbatim ==
  [][\A i \in NmLines : Reads(i) => line_snd'[Other(i)] = line_in[i]]_vars

\* C22, the part that holds: with both lines ready what is read from one
\* line is sent unchanged on the other
C22_ForwardedWhileReady ==
  [][\A i \in NmLines :
       Reads(i) /\ BothReady(linestate)
          => line_snd'[Other(i)] = line_in[i] /\ line_in'[i] = <<>>]_vars

\* a byte waits on line 2 while line 1 has been given new sockets
C22_ArrivedWhileReestablishing ==
  /\ nm_pc = "l2" /\ linestate[1] = NRDY /\ line_fd[1] = "new"
  /\ NmConnected(line_fd[2]) /\ line_in[2] # <<>>


(***************************************************************************)
(* SpecLive: the scanner, the NCP writing next PCFs and the CPU servicing  *)
(* the level 2 requests.  The scanner thread keeps running, and the CPU    *)
(* takes every request and lowers svc_req_L2 after it: both are weakly     *)
(* fair.  The NCP may stop writing at any time.                            *)
(***************************************************************************)
MaxLive == 2
LivePcfs == {1, 15}

ScanStep == ScanLine \/ ScanRmwRead \/ ScanRmwWrite \/ ScanPost \/ ScanCommit

NextLive ==
  \/ ScanStep /\ Idle
  \/ \E l \in Lines, v \in LivePcfs :
        hist.ncp < MaxLive /\ NcpSetPcf(l, v) /\ ObsNcp
  \/ CpuEnterL2 /\ Idle
  \/ CpuExitL2 /\ Idle

Fairness ==
  /\ WF_vars(ScanStep /\ Idle)
  /\ WF_vars(CpuEnterL2 /\ Idle)
  /\ WF_vars(CpuExitL2 /\ Idle)

SpecLive == InitZero /\ [][NextLive]_vars /\ Fairness

\* the scan of line l has just been made
Scanned(l) == line = l /\ cs2_pc = "post"

\* line l has requested a level 2 interrupt that is not raised yet
Requested(l) == line = l /\ CS2_req_L2_int = ON

\* the level 2 interrupt of line l is raised
Raised(l) == svc_req_L2 = ON /\ abar_int = l + 32

\* C23: as long as the CPU lowers svc_req_L2 after every request, every line
\* is scanned again and again, and every level 2 request a line has made is
\* raised in the end; a request of one line that waits for the CPU does not
\* keep the other lines from being scanned.
C23_NoStarvation ==
  /\ \A l \in Lines : []<>Scanned(l)
  /\ \A l \in Lines : Requested(l) ~> Raised(l)

\* C23 witness: the scanner waits with the request of one line while the
\* request of another line is still with the CPU
C23_Witness ==
  /\ cs2_pc = "post" /\ CS2_req_L2_int = ON
  /\ svc_req_L2 = ON /\ abar_int # line + 32 /\ lvl = 2

(***************************************************************************)
(* SpecEcho: the program of SpecCts with a record of the last byte the LIB *)
(* worker has sent on the signal connection of line 0                      *)
(***************************************************************************)
\* observer: the byte the pass of ReadSig sends, if it sends one
ObsEcho ==
  /\ hist' = [hist EXCEPT !.echo = IF rs_out' # <<>> THEN rs_out'[1].sig ELSE @]
  /\ UNCHANGED <<dlswVars, nmVars, lockVars>>

NextEcho ==
  \/ ScanLine /\ Idle
  \/ ScanRmwRead /\ Idle
  \/ ScanRmwWrite /\ Idle
  \/ ScanPost /\ Idle
  \/ ScanCommit /\ Idle
  \/ LibAccept /\ Idle
  \/ LibReadSig /\ Idle
  \/ LibReadSigStore /\ ObsEcho
  \/ Calls + 2 <= MaxConn /\ PeerCalls(0, 2) /\ Idle
  \/ \E sig \in TxSigs :
        /\ Has(RS232r[0], RTS) /\ Len(sig_in[0]) < 2
        /\ PeerSignal(0, sig) /\ Idle
  \/ \E c \in TxLcds : hist.ncp = 0 /\ NcpSetLcd(0, c) /\ ObsNcp
  \/ hist.ncp = 1 /\ LIBline[0].s327x_fd > 0 /\ NcpSetPcf(0, 1) /\ ObsNcp
  \/ hist.ncp = 2 /\ NcpSetPcf(0, 8) /\ ObsNcp
  \/ CpuEnterL2 /\ Idle
  \/ CpuExitL2 /\ Idle

SpecEcho == InitZero /\ [][NextEcho]_vars

\* the pass of ReadSig over line k that ends with this step sends a byte
Sends(k) == lib_pc = "rs_st" /\ lib_pc' = "accept" /\ lib_k = k /\ rs_out' # <<>>

\* a signal of line k, local or for the remote DCE, is changed by the step
SignalChanged(k) == RS232'[k] # RS232[k] \/ RS232r'[k] # RS232r[k]

\* C31: a byte is sent on the signal connection of a line only in a pass of
\* ReadSig in which a signal of the line has changed, and it differs from
\* the byte sent before it
C31_SentOnChange ==
  [][\A k \in Lines : Sends(k) =>
       SignalChanged(k) /\ rs_out'[1].sig # hist.echo]_vars

\* every change of the byte for the remote DCE is sent, as one byte, by the
\* pass that makes it
C31_ChangeIsSent ==
  [][\A k \in Lines : RS232r'[k] # RS232r[k] =>
       Sends(k) /\ rs_out' = <<[fd |-> LIBline[k].s327x_fd, sig |-> RS232r'[k]]>>]_vars

(***************************************************************************)
(* The receive buffer of a line (checked under SpecRcv)                    *)
(***************************************************************************)
\* the scan step of line record W calls proc_LIBrdata: lines 318 and 341
\* (PCF 4 and 5), 361 (PCF 6), 396 and 413 (PCF 7)
RdataCalled(W) ==
  /\ ~Suspended(W.pcf)
  /\ \/ /\ W.pcf \in {4, 5} /\ Has(W.rs, DSR) /\ W.stat # "TX"
        /\ W.lcd \in {8, 9, 12}
     \/ W.pcf = 6
     \/ W.pcf = 7 /\ (W.lcd \in {8, 9} \/ (W.lcd = 12 /\ ~Has(W.scf, 64)))

BUFLEN_327x == 16384
MaxFill == 2
FillBytes == {193, 64}

\* the frame so far: n bytes
FrameOf(n) == [i \in 1..n |-> 193]

InitFill ==
  /\ InitProg /\ InitNM /\ InitLock /\ NmUnset
  /\ hist = [HistInit EXCEPT !.ncp = 3]
  /\ icw_scf = [l \in Lines |-> IF l = 0 THEN 64 ELSE 0]
  /\ icw_pdf = [l \in Lines |-> IF l = 0 THEN 193 ELSE 0]
  /\ icw_lcd = [l \in Lines |-> IF l = 0 THEN 9 ELSE 0]
  /\ icw_pcf = [l \in Lines |-> IF l = 0 THEN 9 ELSE 0]
  /\ icw_sdf = [l \in Lines |-> IF l = 0 THEN 8 ELSE 0]
  /\ icw_pcf_prev = [l \in Lines |-> IF l = 0 THEN 9 ELSE 0]
  /\ icw_lne_stat = [l \in Lines |-> "RESET"]
  /\ icw_pcf_nxt = [l \in Lines |-> IF l = 0 THEN 9 ELSE 0]
  /\ icw_pdf_reg = [l \in Lines |-> "EMPTY"]
  /\ Eflg_rcvd = [l \in Lines |-> OFF]
  /\ FCS_rcvd = [l \in Lines |-> <<0, 0>>]
  /\ RS232 = [l \in Lines |-> IF l = 0 THEN DCD + RI + DTR + DSR + RTS + CTS ELSE 0]
  /\ RS232r = [l \in Lines |-> IF l = 0 THEN RTS ELSE 0]
  /\ CS2_req_L2_int = OFF /\ svc_req_L2 = OFF /\ abar_int = 0 /\ lvl = 5
  /\ Eregs_Inp = [r44 |-> 0, r45 |-> 0, r46 |-> 0, r47 |-> 0]
  /\ \E n \in {BUFLEN_327x - 2, BUFLEN_327x - 1} :
       LIBline = [l \in Lines |->
                    IF l = 0
                    THEN [d327x_fd |-> 1, s327x_fd |-> 2, LIB_rbuf |-> <<>>,
                          LIB_tbuf |-> FrameOf(n), LIBsync |-> 1]
                    ELSE [d327x_fd |-> 0, s327x_fd |-> 0, LIB_rbuf |-> <<>>,
                          LIB_tbuf |-> <<>>, LIBsync |-> 0]]
  /\ line = 0 /\ cs2_pc = "scan" /\ cs2_ops = <<>> /\ cs2_tmp = 0
  /\ lib_k = 0 /\ lib_pc = "accept" /\ lib_tmp = 0
  /\ live = {1, 2} /\ nfd = 2
  /\ pend = [l \in Lines |-> 0]
  /\ dat_in = [l \in Lines |-> <<>>] /\ sig_in = [l \in Lines |-> <<>>]
  /\ lib_out = <<>> /\ rs_out = <<>>

NextFill ==
  \/ ScanLine /\ Idle
  \/ ScanRmwRead /\ Idle
  \/ ScanRmwWrite /\ Idle
  \/ ScanPost /\ Idle
  \/ ScanCommit /\ Idle
  \/ LibAccept /\ Idle
  \/ LibReadSig /\ Idle
  \/ LibReadSigStore /\ Idle
  \/ \E b \in FillBytes :
        /\ hist.ncp = 3 /\ hist.m < MaxFill /\ icw_pdf_reg[0] = "EMPTY"
        /\ NcpFillPdf(0, b) /\ ObsFill
  \/ hist.ncp = 3 /\ NcpSetPcf(0, 12) /\ ObsNcp
  \/ CpuEnterL2 /\ Idle
  \/ CpuExitL2 /\ Idle

SpecFill == InitFill /\ [][NextFill]_vars

\* C33: the transmit buffer of a line never holds more than BUFLEN_327x
\* bytes, however many bytes are submitted before the turnaround: no byte
\* is written past the end of LIB_tbuf
C33_TbufBounded ==
  \A l \in Lines : Len(LIBline[l].LIB_tbuf) <= BUFLEN_327x

\* the buffer has been filled to its last byte
C33_TbufFull ==
  Len(LIBline[0].LIB_tbuf) = BUFLEN_327x /\ LIBline[0].LIBsync = 1

(***************************************************************************)
(* The order in which the mutexes are taken.  SpecLock runs the lock and    *)
(* unlock calls of the scanner and of the LIB worker in every order, while  *)
(* the NCP changes the PCF of the lines and with it the calls the scanner   *)
(* makes.                                                                   *)
(***************************************************************************)
LockPcfs == {0, 1, 5, 7}

NextLock ==
  \/ LkScanTop
  \/ LkScanSwitch
  \/ LkPcf1
  \/ LkReadLIB
  \/ LkDisbuf
  \/ LkScanOut
  \/ LkCommit
  \/ LkLibLine
  \/ LkReadSig
  \/ \E l \in Lines, v \in LockPcfs :
       NcpSetPcf(l, v) /\ UNCHANGED <<hist, dlswVars, nmVars, lockVars>>

SpecLock == InitZero /\ [][NextLock]_vars

\* the mutexes thread t holds
Holds(t) == {m \in Mutexes : mtx[m] = t}

\* thread t takes mutex m in this step
Acquires(t, m) == mtx[m] # t /\ mtx'[m] = t

\* thread t is in pthread_mutex_lock for a mutex that thread u holds
WaitsFor(t, u) == Wanted(t) # "none" /\ mtx[Wanted(t)] = u

\* C34: no thread takes icw_lock while it holds rs232_lock or line_lock, none
\* takes rs232_lock while it holds line_lock, and the scanner and the LIB
\* worker never wait for a mutex of each other at the same time
C34_LockOrder ==
  /\ [][\A t \in Threads :
          /\ Acquires(t, "icw") => Holds(t) \cap {"rs232", "line"} = {}
          /\ Acquires(t, "rs232") => "line" \notin Holds(t)]_vars
  /\ [](~(WaitsFor("cs2", "lib") /\ WaitsFor("lib", "cs2")))

\* C34 witness: the scanner holds icw_lock and waits in PCF 1 for rs232_lock,
\* which the LIB worker holds in ReadSig
C34_ScannerWaits ==
  /\ mtx["icw"] = "cs2" /\ lk_pc.cs2 = "pcf1"
  /\ WaitsFor("cs2", "lib") /\ lk_pc.lib = "rs_in"

(***************************************************************************)
(* The signal bytes of the DLSw endpoint.  SpecDce is Spec with a record    *)
(* of the signal byte that ReadSig read in the step, hist.rsig; it is -1    *)
(* after every other step.                                                  *)
(***************************************************************************)
ObsSig(sig) == hist' = [hist EXCEPT !.rsig = sig] /\ UNCHANGED <<i3705Vars, nmVars, lockVars>>

NextDce ==
  \/ \E m \in CircuitMsgs : RecvDLSw(<<m>>) /\ ObsSig(-1)
  \/ \E fr \in CircuitFrames, ub \in UBFor : ReadLine(fr, ub) /\ ObsSig(-1)
  \/ PeerAccept /\ ObsSig(-1)
  \/ PeerConnect /\ ObsSig(-1)
  \/ SendCapex /\ ObsSig(-1)
  \/ PeerDrop /\ ObsSig(-1)
  \/ LineConnect /\ ObsSig(-1)
  \/ LineDrop /\ ObsSig(-1)
  \/ \E sig \in Signals : ReadSig(sig) /\ ObsSig(sig)

SpecDce == Init /\ [][NextDce]_vars

\* the step sends a byte with CTS set on the signal connection
SendsCts == conlfd = ON /\ sig_out' # <<>> /\ BitAnd(sig_out'[1], CTS) # 0

\* the step is ReadSig reading a byte with RTS set
ReadsRts == hist'.rsig # -1 /\ BitAnd(hist'.rsig, RTS) # 0

\* C35: the endpoint sends CTS only in answer to a signal byte with RTS set,
\* read while the circuit is CONNECTED; an RTS read in any other circuit
\* state gets no signal byte in return
C35_CtsOnlyForRts ==
  [][/\ SendsCts => ReadsRts /\ state = CONNECTED
     /\ ReadsRts /\ state # CONNECTED => sig_out' = <<>>]_vars

\* C35: ReadSig answers with CTS only an RTS read on a CONNECTED circuit,
\* and an RTS read in any other circuit state gets no answer
C35_ReadSigAnswers ==
  [][hist'.rsig # -1 =>
       /\ SendsCts => ReadsRts /\ state = CONNECTED
       /\ ReadsRts /\ state # CONNECTED => sig_out' = <<>>]_vars

\* C35: a byte with CTS set has been sent on a circuit that is not connected,
\* in a step that read no signal byte
C35_CtsWithoutRts ==
  conlfd = ON /\ state # CONNECTED /\ hist.rsig = -1
  /\ sig_out # <<>> /\ BitAnd(sig_out[1], CTS) # 0

(***************************************************************************)
(* The bytes of the SDLC tx-buf and the frames queued in it (checked under *)
(* SpecQueue)                                                              *)
(***************************************************************************)
\* bytes the frames of q take in the tx-buf, a 2-byte length before each
RECURSIVE QueuedBytes(_)
QueuedBytes(q) == IF q = <<>> THEN 0 ELSE Head(q).len + 2 + QueuedBytes(Tail(q))

\* IFRAMlen of line 1197: the length prefix at the head of the tx-buf
PrefixLen == Rd(SDLC_wbuf, 0) * 256 + Rd(SDLC_wbuf, 1)

\* the tx-buf holds the queued frames as they were enqueued
Intact ==
  /\ SDLCwlen = QueuedBytes(hist.queue)
  /\ hist.queue # <<>> =>
       /\ PrefixLen = Head(hist.queue).len
       /\ Bytes(SDLC_wbuf, 2, PrefixLen, 0) = Head(hist.queue)

\* C36: for any order of INFOFRAMEs and polls every I-frame sent is the
\* frame that was enqueued, the length prefix at the head of the tx-buf is
\* the length of the oldest queued frame, and the tx-buf length is the sum
\* over the queued frames of frame length + 2
C36_QueueIntact == hist.fifo /\ Intact

\* C36: a step that sends the line nothing, or sends the oldest queued
\* frame, or answers a poll with nothing queued, leaves the queue intact
C36_IntactButForResponses ==
  [][Intact /\ (line_out' = <<>> \/ SDLCwlen = 0
                \/ (hist.queue # <<>> /\ line_out' = <<Head(hist.queue)>>))
       => Intact']_vars

\* C36: a response to a poll was sent with a frame queued, and the length
\* prefix of the frame is no longer its length
C36_PrefixOverwritten ==
  /\ hist.queue # <<>> /\ line_out # <<>>
  /\ PrefixLen # Head(hist.queue).len

(***************************************************************************)
(* DTR in the ICW and on the line (checked under SpecLib)                  *)
(***************************************************************************)
\* DTR of line l as the ICW has it (sdf bit 0x08) and as RS232[l] has it
IcwDtr(l) == Has(icw_sdf[l], 8)
LineDtr(l) == Has(RS232[l], DTR)

\* the scanner is between two scan cycles
CycleEnd == cs2_pc = "scan"

\* C37: at the end of a scan cycle the DTR bit of a line's ICW and the DTR
\* bit of its local RS-232 signal byte agree
C37_DtrAgree == CycleEnd => \A l \in Lines : IcwDtr(l) <=> LineDtr(l)

\* C37: a scan of PCF 1 leaves both DTR bits set
C37_Pcf1SetsBoth ==
  [][cs2_pc = "scan" /\ cs2_pc' = "post" /\ icw_pcf_nxt[line] = 1
       => IcwDtr(line)' /\ LineDtr(line)']_vars

\* C37: the signal connection of a line with DTR set has been accepted, and
\* DTR is gone from the line's signal byte while the ICW still has it
C37_DtrLostOnAccept ==
  /\ CycleEnd /\ LIBline[0].s327x_fd > 0 /\ RS232[0] = DCD + RI
  /\ IcwDtr(0) /\ ~LineDtr(0)

(***************************************************************************)
(* SpecHalt: the DLSw router is the remote DCE of line 0.  It opens its    *)
(* two connections and sends the signal bytes of proc_DLSw: RTS on         *)
(* CONTACTED and ~RTS on HALT_DL; the NCP sets the line code, enables the  *)
(* line (PCF 1) and goes on to monitor it (PCF 2) or to disable it (PCF F) *)
(***************************************************************************)
MaxHaltNcp == 3
MaxHaltIn == 3
HaltPcfs == {2, 15}

\* the byte of the HALT_DL handler, signal = ~RTS as a uint8_t
HaltSignal == NotRTS

\* signal bytes of the router: DLSw_rt.c lines 606-607 and 676-677
DceSigs == {RTS, HaltSignal}

NextHalt ==
  \/ ScanLine /\ Idle
  \/ ScanRmwRead /\ Idle
  \/ ScanRmwWrite /\ Idle
  \/ ScanPost /\ Idle
  \/ ScanCommit /\ Idle
  \/ LibAccept /\ Idle
  \/ LibReadSig /\ Idle
  \/ LibReadSigStore /\ Idle
  \/ hist.ncp = 0 /\ Calls + 2 <= MaxConn /\ PeerCalls(0, 2) /\ Idle
  \/ \E sig \in DceSigs :
        /\ hist.m < MaxHaltIn /\ Len(sig_in[0]) < 2
        /\ PeerSignal(0, sig) /\ ObsSent
  \/ hist.ncp = 0 /\ LIBline[0].s327x_fd > 0 /\ NcpSetLcd(0, 9) /\ ObsNcp
  \/ hist.ncp = 1 /\ NcpSetPcf(0, 1) /\ ObsNcp
  \/ \E v \in HaltPcfs :
        /\ hist.ncp > 1 /\ hist.ncp < MaxHaltNcp /\ icw_pcf[0] = icw_pcf_nxt[0]
        /\ NcpSetPcf(0, v) /\ ObsNcp
  \/ CpuEnterL2 /\ Idle
  \/ CpuExitL2 /\ Idle

SpecHalt == InitZero /\ [][NextHalt]_vars

\* ReadSig completes a pass over line k in which the byte it evaluates (the
\* last of those waiting on the signal connection) is the byte of a HALT_DL
HaltEvaluated(k) ==
  /\ lib_pc = "rs_st" /\ lib_pc' = "accept" /\ lib_k = k
  /\ IsSocketConnected(LIBline[k].s327x_fd)
  /\ SigRead(sig_in[k]) # <<>> /\ sig_in[k][Len(sig_in[k])] = HaltSignal

\* the pass raises the local CTS of line k
RaisesCts(k) == Has(RS232'[k], CTS) /\ ~Has(RS232[k], CTS) /\ ~Has(lib_tmp, CTS)

\* the pass sets CTS in the byte for the remote DCE
AnswersCts(k) == Has(RS232r'[k], CTS) /\ ~Has(RS232r[k], CTS)

\* C38: the signal byte of a HALT_DL, evaluated by ReadSig on the attached
\* line, neither raises the line's local CTS nor makes the LIB answer with
\* CTS, whatever the line's DTR
C38_HaltGrantsNothing ==
  [][\A k \in Lines : HaltEvaluated(k) => ~RaisesCts(k) /\ ~AnswersCts(k)]_vars

\* C38: the byte of a HALT_DL does not make the LIB answer with CTS, and
\* with DTR low it does not raise the local CTS
C38_HaltNoAnswer ==
  [][\A k \in Lines : HaltEvaluated(k) =>
       /\ ~AnswersCts(k)
       /\ ~Has(RS232[k], DTR) /\ ~Has(lib_tmp, DTR) => ~RaisesCts(k)]_vars

\* C38: ReadSig has evaluated the byte of a HALT_DL and the local CTS of
\* the line is high, with no RTS of the scanner
C38_CtsAfterHalt ==
  /\ lib_pc = "accept" /\ lib_k = 1 /\ sig_in[0] = <<>> /\ hist.m > 1
  /\ Has(RS232[0], CTS) /\ Has(RS232[0], DTR) /\ ~Has(RS232[0], RTS)
  /\ ~Has(RS232r[0], CTS)

(***************************************************************************)
(* SpecRead: the reads of the inbound DLSw socket.  A read returns what    *)
(* the TCP stream holds, one message or MaxRead messages sent one after    *)
(* the other; hist.rdm is the messages the read of the step returned,      *)
(* <<>> after every other step.                                            *)
(***************************************************************************)
\* messages in one read of the inbound socket
MaxRead == 2

\* messages that are answered in every circuit state
ReadMsgs == {Ctl(t, 0, c, <<>>) : t \in {HALT_DL, RESTART_DL}, c \in {1, 2}}

\* what a read may return
SockReads ==
  {<<m>> : m \in CircuitMsgs}
  \cup UNION {[1..n -> ReadMsgs] : n \in 2..MaxRead}

ObsMsgs(rd) == hist' = [hist EXCEPT !.rdm = rd] /\ UNCHANGED <<i3705Vars, nmVars, lockVars>>

NextRead ==
  \/ \E rd \in SockReads : RecvDLSw(rd) /\ ObsMsgs(rd)
  \/ \E fr \in CircuitFrames, ub \in UBFor : ReadLine(fr, ub) /\ ObsMsgs(<<>>)
  \/ PeerAccept /\ ObsMsgs(<<>>)
  \/ PeerConnect /\ ObsMsgs(<<>>)
  \/ SendCapex /\ ObsMsgs(<<>>)
  \/ PeerDrop /\ ObsMsgs(<<>>)
  \/ LineConnect /\ ObsMsgs(<<>>)
  \/ LineDrop /\ ObsMsgs(<<>>)

SpecRead == Init /\ [][NextRead]_vars

\* the reply to a HALT_DL or RESTART_DL: its type and its remote correlator
ReplyType(m) == IF m.mtyp = HALT_DL THEN DL_HALTED ELSE DL_RESTARTED
ReplyKey(m) == <<ReplyType(m), m.odlc>>

IsHaltOrRestartReply(r) == r.mtyp \in {DL_HALTED, DL_RESTARTED}

\* the replies among the messages sent, by type and remote correlator
RepliesSent(out) ==
  LET s == SelectSeq(out, IsHaltOrRestartReply)
  IN  [i \in 1..Len(s) |-> <<s[i].mtyp, s[i].rdlc>>]

\* the step is a read that returned HALT_DLs and RESTART_DLs only
ReadOfAnswered == hist'.rdm # <<>> /\ \A i \in 1..Len(hist'.rdm) : hist'.rdm[i] \in ReadMsgs

\* C39: every message a read of the inbound socket delivers is processed,
\* once, and the replies are sent in the order of the messages, also when
\* the read delivers two or more messages
C39_EveryMessageAnswered ==
  [][ReadOfAnswered =>
       RepliesSent(dlsw_out') = [i \in 1..Len(hist'.rdm) |-> ReplyKey(hist'.rdm[i])]]_vars

\* C39: the first message of every read is processed, once
C39_FirstMessageAnswered ==
  [][ReadOfAnswered => RepliesSent(dlsw_out') = <<ReplyKey(hist'.rdm[1])>>]_vars

\* C39: a read has delivered a HALT_DL and a RESTART_DL and one reply was sent
C39_SecondSkipped ==
  /\ Len(hist.rdm) = 2 /\ hist.rdm[1].mtyp = HALT_DL /\ hist.rdm[2].mtyp = RESTART_DL
  /\ RepliesSent(dlsw_out) = <<ReplyKey(hist.rdm[1])>>

(***************************************************************************)
(* RTS in the byte for the remote DCE (checked under SpecSig)              *)
(***************************************************************************)
\* RTS as the byte sent by the step tells it to the remote DCE
SentRts == Has(rs_out'[1].sig, RTS)

\* C40: a byte the LIB sends on the signal connection of a line whose local
\* RTS is low, dropped by the scanner or cleared because DTR dropped, has
\* RTS clear
C40_RtsTracked ==
  [][\A k \in Lines : Sends(k) /\ ~Has(RS232'[k], RTS) => ~SentRts]_vars

\* C40: RTS is never set in the byte for the remote DCE unless local RTS
\* has been high: a pass that sets it finds local RTS high and CTS low
C40_RtsSetForLocalRts ==
  [][\A k \in Lines : Has(RS232r'[k], RTS) /\ ~Has(RS232r[k], RTS)
       => Has(lib_tmp, RTS) /\ ~Has(lib_tmp, CTS)]_vars

\* C40: ReadSig has cleared local RTS of a line whose DTR is low and has
\* sent a byte in which RTS is set
C40_RtsStillSent ==
  /\ lib_pc = "accept" /\ lib_k = 1 /\ rs_out # <<>> /\ Has(rs_out[1].sig, RTS)
  /\ ~Has(RS232[0], DTR) /\ ~Has(RS232[0], RTS)

=============================================================================
